---- MODULE Spec2Model ----
(***************************************************************************)
(* State-machine model of screenshot_tool.py: the capture flows of         *)
(* ScreenshotTool (hotkeys, buttons, countdown, selectors, editor hand-off,*)
(* save), the RegionSelector and WindowSelector overlays, and the          *)
(* ScreenshotEditor drawing state.                                         *)
(*                                                                         *)
(* Every Tk callback runs to completion on the UI thread, so each handler  *)
(* is one action.  The keyboard library delivers hotkey callbacks one at a *)
(* time from its own listener thread; they only test and set the guard and *)
(* queue a root.after callback, so each is one action too.                 *)
(***************************************************************************)
EXTENDS Bags, FiniteSets, Integers, Sequences, TLC

(***************************************************************************)
(* Bounds of the model.                                                    *)
(***************************************************************************)
MaxFlows == 2      \* capture flows started in one session
MaxClock == 1      \* the wall clock runs over the seconds 0..MaxClock
MaxCoord == 12     \* region picker: the largest pointer coordinate
MaxPoint == 2      \* window picker: screen positions 0..MaxPoint
MaxHwnd == 2       \* window picker: window handles 1..MaxHwnd (0 is no window)
MaxXY == 3         \* editor: largest canvas pointer coordinate
MaxStrokes == 1    \* editor: pointer presses on the canvas per session
MaxOps == 2        \* editor: drawings made on the highlight layer per session
MaxSaves == 3      \* store: screenshots saved in one session
MaxOld == 1        \* store: screenshots left in the save directory by earlier sessions
MaxWindows == 2    \* paste: top-level windows on the desktop
MaxPastes == 2     \* paste: images sent to the push target in one session
MaxMoved == 1      \* folders: "_moved" suffixes a file name may carry
MaxCountdowns == 2 \* countdowns: DelayCountdown windows created
MaxTemp == 2       \* hotkeys: position captures begun and not yet finished
MaxOpens == 2      \* dragging: images opened from the gallery
MaxThumbs == 2     \* hovering: thumbnails of the gallery
MaxOverlays == 3   \* hovering: overlay windows created
MaxTimers == 2     \* hovering: pending hide timers of one thumbnail

\* Python's None: NoInt where the field otherwise holds an integer, Nil where
\* it otherwise holds a tuple or an image.
NoInt == -1
Nil == <<>>

VARIABLES
    \* ---- ScreenshotTool -------------------------------------------------
    capture_in_progress,  \* self._capture_in_progress
    screenshot_count,     \* self.screenshot_count
    delay_var,            \* int(self.delay_var.get())
    edit_before_save,     \* self.edit_before_save.get()
    silent_capture,       \* self.silent_capture.get()
    iconified,            \* main window iconified (root.iconify / deiconify)
    flows,                \* bag of the capture flows started so far: the
                          \* pending root.after callback, countdown, overlay
                          \* or editor of each (or "done"), with who started
                          \* it and how often its handlers cleared the guard
    files,                \* screenshot files in the save directory, by timestamp
    now,                  \* datetime.now() at one-second resolution
    \* ---- RegionSelector -------------------------------------------------
    rs_open,              \* self.overlay exists
    start_x, start_y,     \* self.start_x, self.start_y
    rect,                 \* coordinates of the canvas rectangle self.rect
    rs_calls,             \* the calls of self.callback made so far
    \* ---- WindowSelector -------------------------------------------------
    handled,              \* self.handled
    ws_open,              \* self.overlay and self.info_window exist
    ws_calls,             \* the calls of self.callback made so far
    window_at,            \* win32gui.WindowFromPoint, by screen position
    root_of,              \* win32gui.GetAncestor(hwnd, GA_ROOT), by handle
    \* ---- ScreenshotEditor -----------------------------------------------
    ed_open,              \* self.window exists
    scale,                \* self.scale, as <<numerator, denominator>>
    image,                \* self.image: the base image, as RGBA
    photo,                \* self.photo: what update_display last rendered
    draw_mode,            \* self.draw_mode
    current_color,        \* self.current_color
    horizontal_lock,      \* self.horizontal_lock (and the checkbox lock_var)
    lock_y,               \* self.lock_y
    drawing,              \* self.drawing
    last_x, last_y,       \* self.last_x, self.last_y
    center_x, center_y,   \* self.center_x, self.center_y
    highlight_layer,      \* self.highlight_layer: the number of drawings made
                          \* on it and the last of them
    preview_layer,        \* self.preview_layer: the drawing on it (Nil: clear)
    strokes,              \* pointer presses the canvas has received
    ed_calls,             \* the calls of self.callback made so far
    \* ---- ScreenshotTool: the save directory and what is shown of it ------
    current_folder,       \* self.current_folder ("" for None)
    folders,              \* names of the subfolders of self.save_dir
    disk,                 \* the PNG files under self.save_dir
    clipboard,            \* the image on the Windows clipboard (NoInt: none)
    copy_failed,          \* the last copy_to_clipboard printed "Clipboard error"
    status_var,           \* self.status_var, as the pieces of the f-string
    gallery,              \* the files refresh_gallery last listed
    auto_send_enabled,    \* self.auto_send_enabled.get()
    auto_send_target,     \* self.auto_send_target.get()
    pending,              \* root.after(.., paste_to_target(target)) not yet run
    disk_limit_mb,        \* self.disk_limit_mb.get()
    cleanup_prompted,     \* getattr(self, '_cleanup_prompted', False)
    prompt_timers,        \* root.after(500, self.prompt_cleanup) not yet run
    prompts_scheduled,    \* how often prompt_cleanup was scheduled so far
    last_dialog,          \* the messagebox shown last (Nil: none yet)
    \* ---- ScreenshotTool: pasting into a push target ----------------------
    windows,              \* the top-level windows, in EnumWindows order
    target,               \* the push target of the name "chat"
    input_events,         \* the pyautogui clicks and keystrokes made so far
    paste_results,        \* what the calls of paste_to_target returned so far
    \* ---- ScreenshotTool: global hotkeys ----------------------------------
    hotkeys,              \* the chords bound with keyboard.add_hotkey, as a bag
    hotkeys_registered,   \* self.hotkeys_registered
    closed,               \* on_close has destroyed the main window
    registrations,        \* root.after(100, finish_target_registration) not yet run
    \* ---- DelayCountdown --------------------------------------------------
    countdowns,           \* the DelayCountdown objects created so far, each with
                          \* its window, its pending tick and its callback's calls
    \* ---- ScreenshotTool: the folder bar ----------------------------------
    folder_bar,           \* the folders with a button in the folder bar
                          \* (the keys of self.folder_drop_targets but None)
    \* ---- ScreenshotTool: dragging a thumbnail ----------------------------
    held,                 \* the file of the thumbnail the pointer button is
                          \* held on (Nil: the button is up)
    drag_started,         \* drag_started[0] of that thumbnail's handlers
    start_pos,            \* start_pos of that thumbnail's handlers
    drag_filepath,        \* self.drag_data["filepath"] (Nil for None)
    drag_label,           \* where self.drag_label floats (Nil: no such window)
    opened,               \* the files open_image has opened so far
    strayed,              \* the pointer has been more than DragThreshold from
                          \* where the button went down, in x or in y
    \* ---- ScreenshotTool: the hover overlays of the thumbnails ------------
    hover,                \* per thumbnail: overlay_window and hide_timer of
                          \* its hover handlers
    hide_timers,          \* per thumbnail: the after(100, hide_overlay_now)
                          \* callbacks of its container that are pending
    floating_windows,     \* self.floating_windows
    toplevels,            \* the overlay windows that exist
    overlay_thumb,        \* per overlay window created so far: the thumbnail
                          \* whose handlers made it, the path they were made
                          \* for, and whether that thumbnail has been destroyed
                          \* since
    pointer               \* what the mouse pointer is over

capVars == <<capture_in_progress, screenshot_count, delay_var, edit_before_save,
             silent_capture, iconified, flows, files, now>>

rsVars == <<rs_open, start_x, start_y, rect, rs_calls>>

wsVars == <<handled, ws_open, ws_calls, window_at, root_of>>

edVars == <<ed_open, scale, image, photo, draw_mode, current_color,
            horizontal_lock, lock_y, drawing, last_x, last_y, center_x,
            center_y, highlight_layer, preview_layer, strokes, ed_calls>>

\* The save directory's state apart from the dialog shown last
StoreIdle == <<current_folder, folders, disk, clipboard, copy_failed,
               status_var, gallery, auto_send_enabled, auto_send_target,
               pending, disk_limit_mb, cleanup_prompted, prompt_timers,
               prompts_scheduled>>

\* The save directory's state apart from the status bar
StoreQuiet == <<current_folder, folders, disk, clipboard, copy_failed, gallery,
                auto_send_enabled, auto_send_target, pending, disk_limit_mb,
                cleanup_prompted, prompt_timers, prompts_scheduled, last_dialog>>

stVars == <<current_folder, folders, disk, clipboard, copy_failed, status_var,
            gallery, auto_send_enabled, auto_send_target, pending,
            disk_limit_mb, cleanup_prompted, prompt_timers, prompts_scheduled,
            last_dialog>>

psVars == <<windows, target, input_events, paste_results>>

hkVars == <<hotkeys, hotkeys_registered, closed, registrations>>

cdVars == <<countdowns>>

fbVars == <<folder_bar>>

dgVars == <<held, drag_started, start_pos, drag_filepath, drag_label, opened,
           strayed>>

hvVars == <<hover, hide_timers, floating_windows, toplevels, overlay_thumb,
           pointer>>

vars == <<capVars, rsVars, wsVars, edVars, stVars, psVars, hkVars, cdVars, fbVars, dgVars, hvVars>>

(***************************************************************************)
(* Settings dialog values.                                                 *)
(***************************************************************************)
CaptureModes == {"region", "window", "full"}
DelayValues == {0, 3}     \* two of the combobox values "0", "3", "5", "10"

(***************************************************************************)
(* Capture flows.  pc names what the flow is waiting on:                   *)
(*   after_start      root.after(.., start_X) queued by a hotkey           *)
(*   after_countdown  root.after(200, lambda: DelayCountdown(delay, ..))   *)
(*   countdown        a DelayCountdown window with its tick pending        *)
(*   after_selector   root.after(200, self._show_X_selector)               *)
(*   selector         a RegionSelector / WindowSelector overlay            *)
(*   after_grab       root.after(150, self._do_fullscreen_capture)         *)
(*   editor           a ScreenshotEditor window                            *)
(*   done             nothing of the flow is pending any more              *)
(*   crashed          an exception ended the flow outside any handler      *)
(***************************************************************************)
NewFlow(origin, mode) ==
    [origin |-> origin, mode |-> mode, pc |-> "after_start",
     seconds_left |-> 0, resets |-> 0]

One(fl) == SetToBag({fl})
FlowSet == BagToSet(flows)
NumFlows == BagCardinality(flows)

\* The flow fl moves on to the state fl2.
Becomes(fl, fl2) == flows' = (flows (-) One(fl)) (+) One(fl2)

\* The flow fl has ended: nothing of it is pending any more.  What is kept
\* of it is where it came from and how often it reset the guard.
Ends(fl, resets) ==
    Becomes(fl, [fl EXCEPT !.pc = "done", !.mode = "", !.seconds_left = 0,
                           !.resets = resets])

\* An exception left the flow's handler: nothing of it is pending either.
Crashes(fl) ==
    Becomes(fl, [fl EXCEPT !.pc = "crashed", !.mode = "", !.seconds_left = 0])

InFlight == {fl \in FlowSet : fl.pc \notin {"done", "crashed"}}

\* start_region_capture / start_window_capture / capture_fullscreen: read the
\* delay, iconify the main window and queue the next step.
StartedFlow(fl) ==
    IF delay_var > 0
    THEN [fl EXCEPT !.pc = "after_countdown", !.seconds_left = delay_var]
    ELSE [fl EXCEPT !.pc = IF fl.mode = "full" THEN "after_grab"
                           ELSE "after_selector"]

\* save_screenshot: the file is named by the current second and written
\* into the save directory; the session counter goes up by one.
\* Faulty variant: the session counter makes the name unique.
Filename_Counted(t) == <<"screenshot_", t, "_", screenshot_count, ".png">>

Filename(t) == <<"screenshot_", t, ".png">>

save_screenshot ==
    /\ files' = files \cup {Filename(now)}
    /\ screenshot_count' = screenshot_count + 1

NoSave == UNCHANGED <<files, screenshot_count>>

Settings == <<delay_var, edit_before_save, silent_capture>>

(***************************************************************************)
(* Hotkey callbacks (keyboard listener thread).                            *)
(***************************************************************************)
\* Faulty variant: the hotkey callback without its guard test.
HotkeyPress_NoGuard(mode) ==
    /\ NumFlows < MaxFlows
    /\ capture_in_progress' = TRUE
    /\ flows' = flows (+) One(NewFlow("hotkey", mode))
    /\ UNCHANGED <<screenshot_count, Settings, iconified, files, now>>

HotkeyPress(mode) ==
    IF capture_in_progress
    THEN UNCHANGED vars
    ELSE /\ NumFlows < MaxFlows
         /\ capture_in_progress' = TRUE
         /\ flows' = flows (+) One(NewFlow("hotkey", mode))
         /\ UNCHANGED <<screenshot_count, Settings, iconified,
                        files, now>>

start_region_capture_threadsafe == HotkeyPress("region")
capture_fullscreen_threadsafe == HotkeyPress("full")
start_window_capture_threadsafe == HotkeyPress("window")

(***************************************************************************)
(* start_X: run from the queued hotkey callback, or directly by a button.  *)
(***************************************************************************)
AfterStart ==
    \E fl \in FlowSet :
        /\ fl.pc = "after_start"
        /\ Becomes(fl, StartedFlow(fl))
        /\ iconified' = TRUE
        /\ UNCHANGED <<capture_in_progress, screenshot_count, Settings,
                       files, now>>

ButtonPress(mode) ==
    /\ NumFlows < MaxFlows
    /\ flows' = flows (+) One(StartedFlow(NewFlow("button", mode)))
    /\ iconified' = TRUE
    /\ UNCHANGED <<capture_in_progress, screenshot_count, Settings,
                   files, now>>

\* The sidebar buttons, and the settings dialog's Capture button (do_capture
\* dispatches on the capture mode combobox).
SidebarButton == \E mode \in CaptureModes : ButtonPress(mode)
do_capture == \E mode \in CaptureModes : ButtonPress(mode)

(***************************************************************************)
(* The capture itself, and what follows it.                                *)
(***************************************************************************)
\* The except clause of a capture handler: the message goes to the status
\* bar and into an error dialog.
showerror(error_msg) == last_dialog' = <<"showerror", "Error", error_msg>>

\* After a successful grab: open the editor or save directly.
EditOrSave(fl, resets) ==
    IF edit_before_save
    THEN /\ Becomes(fl, [fl EXCEPT !.pc = "editor", !.resets = resets])
         /\ NoSave
    ELSE /\ save_screenshot
         /\ Ends(fl, resets)

\* Faulty variant: the main window is restored after every grab.
_do_fullscreen_capture_Restores(fl, grab_ok) ==
    /\ capture_in_progress' = FALSE
    /\ iconified' = FALSE
    /\ IF grab_ok
       THEN /\ EditOrSave(fl, fl.resets + 1)
            /\ UNCHANGED last_dialog
       ELSE /\ Ends(fl, fl.resets + 1)
            /\ showerror("Error capturing screenshot")
            /\ NoSave

\* _do_fullscreen_capture: the guard is reset first, then the screen grabbed.
_do_fullscreen_capture(fl, grab_ok) ==
    /\ capture_in_progress' = FALSE
    /\ IF grab_ok
       THEN /\ EditOrSave(fl, fl.resets + 1)
            /\ iconified' = IF edit_before_save \/ ~silent_capture
                            THEN FALSE ELSE iconified
            /\ UNCHANGED last_dialog
       ELSE /\ Ends(fl, fl.resets + 1)
            /\ iconified' = FALSE
            /\ showerror("Error capturing screenshot")
            /\ NoSave

\* RegionSelector.__init__ grabs the screen before the overlay exists; a
\* failing grab raises out of the Tk callback and the flow stops there.
_show_region_selector(fl, grab_ok) ==
    /\ IF grab_ok
       THEN Becomes(fl, [fl EXCEPT !.pc = "selector"])
       ELSE Crashes(fl)
    /\ UNCHANGED <<capture_in_progress, iconified, last_dialog>>
    /\ NoSave

_show_window_selector(fl) ==
    /\ Becomes(fl, [fl EXCEPT !.pc = "selector"])
    /\ UNCHANGED <<capture_in_progress, iconified, last_dialog>>
    /\ NoSave

\* _on_region_delay_complete / _on_window_delay_complete /
\* _on_fullscreen_delay_complete
delay_complete(fl, proceed, grab_ok) ==
    IF proceed
    THEN CASE fl.mode = "region" -> _show_region_selector(fl, grab_ok)
           [] fl.mode = "window" -> _show_window_selector(fl)
           [] fl.mode = "full" -> _do_fullscreen_capture(fl, grab_ok)
    ELSE /\ capture_in_progress' =
                IF fl.mode = "full" THEN FALSE ELSE capture_in_progress
         /\ Ends(fl, IF fl.mode = "full" THEN fl.resets + 1 ELSE fl.resets)
         /\ iconified' = FALSE
         /\ UNCHANGED last_dialog
         /\ NoSave

\* DelayCountdown.tick
tick(fl, grab_ok) ==
    IF fl.seconds_left <= 0
    THEN delay_complete(fl, TRUE, grab_ok)
    ELSE /\ Becomes(fl, [fl EXCEPT !.pc = "countdown",
                                   !.seconds_left = fl.seconds_left - 1])
         /\ UNCHANGED <<capture_in_progress, iconified, last_dialog>>
         /\ NoSave

\* DelayCountdown.__init__ ends by calling tick().
CountdownInit ==
    \E fl \in FlowSet, grab_ok \in BOOLEAN :
        /\ fl.pc = "after_countdown"
        /\ tick(fl, grab_ok)
        /\ UNCHANGED <<Settings, now>>

CountdownTick ==
    \E fl \in FlowSet, grab_ok \in BOOLEAN :
        /\ fl.pc = "countdown"
        /\ tick(fl, grab_ok)
        /\ UNCHANGED <<Settings, now>>

\* DelayCountdown.cancel (Cancel button or Escape)
CountdownCancel ==
    \E fl \in FlowSet :
        /\ fl.pc = "countdown"
        /\ delay_complete(fl, FALSE, FALSE)
        /\ UNCHANGED <<Settings, now>>

ShowSelector ==
    \E fl \in FlowSet, grab_ok \in BOOLEAN :
        /\ fl.pc = "after_selector"
        /\ IF fl.mode = "region" THEN _show_region_selector(fl, grab_ok)
                                 ELSE _show_window_selector(fl)
        /\ UNCHANGED <<Settings, now>>

DoFullscreenCapture ==
    \E fl \in FlowSet, grab_ok \in BOOLEAN :
        /\ fl.pc = "after_grab"
        /\ _do_fullscreen_capture(fl, grab_ok)
        /\ UNCHANGED <<Settings, now>>

\* on_region_selected(region, cropped_image); selected = FALSE is the
\* picker's cancellation (None, None).
on_region_selected(fl, selected) ==
    /\ capture_in_progress' = FALSE
    /\ UNCHANGED last_dialog
    /\ IF ~selected
       THEN /\ Ends(fl, fl.resets + 1)
            /\ iconified' = IF silent_capture THEN iconified ELSE FALSE
            /\ NoSave
       ELSE /\ EditOrSave(fl, fl.resets + 1)
            /\ iconified' = IF edit_before_save \/ ~silent_capture
                            THEN FALSE ELSE iconified

\* on_window_selected(hwnd) followed by capture_window(hwnd); grab is the
\* outcome of capture_window: "ok", "invalid" (empty window rectangle) or
\* "error" (an exception, caught and shown in a dialog).
on_window_selected(fl, selected, grab) ==
    /\ capture_in_progress' = FALSE
    /\ IF ~selected
       THEN /\ Ends(fl, fl.resets + 1)
            /\ iconified' = IF silent_capture THEN iconified ELSE FALSE
            /\ UNCHANGED last_dialog
            /\ NoSave
       ELSE /\ iconified' = IF edit_before_save \/ ~silent_capture
                            THEN FALSE ELSE iconified
            /\ IF grab = "ok"
               THEN EditOrSave(fl, fl.resets + 1)
               ELSE /\ Ends(fl, fl.resets + 1)
                    /\ NoSave
            /\ IF grab = "error"
               THEN showerror("Error capturing window")
               ELSE UNCHANGED last_dialog

SelectorDone ==
    \E fl \in FlowSet, selected \in BOOLEAN, grab \in {"ok", "invalid", "error"} :
        /\ fl.pc = "selector"
        /\ IF fl.mode = "region" THEN on_region_selected(fl, selected)
                                 ELSE on_window_selected(fl, selected, grab)
        /\ UNCHANGED <<Settings, now>>

\* on_editor_complete(edited_image); saved = FALSE is the editor's None.
on_editor_complete ==
    \E fl \in FlowSet, saved \in BOOLEAN :
        /\ fl.pc = "editor"
        /\ IF saved THEN save_screenshot ELSE NoSave
        /\ Ends(fl, fl.resets)
        /\ UNCHANGED <<capture_in_progress, iconified, Settings, now>>

(***************************************************************************)
(* Environment: the settings dialog and the clock.                         *)
(***************************************************************************)
SetDelay ==
    \E d \in DelayValues :
        /\ delay_var' = d
        /\ UNCHANGED <<capture_in_progress, screenshot_count, edit_before_save,
                       silent_capture, iconified, flows, files, now>>

ToggleEdit ==
    /\ edit_before_save' = ~edit_before_save
    /\ UNCHANGED <<capture_in_progress, screenshot_count, delay_var,
                   silent_capture, iconified, flows, files, now>>

ToggleSilent ==
    /\ silent_capture' = ~silent_capture
    /\ UNCHANGED <<capture_in_progress, screenshot_count, delay_var,
                   edit_before_save, iconified, flows, files, now>>

ClockTick ==
    /\ now < MaxClock
    /\ now' = now + 1
    /\ UNCHANGED <<capture_in_progress, screenshot_count, Settings, iconified,
                   flows, files>>

InitCapture ==
    /\ capture_in_progress = FALSE
    /\ screenshot_count = 0
    /\ delay_var = 0
    /\ edit_before_save = TRUE
    /\ silent_capture = FALSE
    /\ iconified = FALSE
    /\ flows = EmptyBag
    /\ files = {}
    /\ now = 0

(***************************************************************************)
(* RegionSelector: the overlay's event handlers.  Tk delivers no event to  *)
(* a destroyed overlay, so the handlers run only while it is open.         *)
(***************************************************************************)
RegionMin == 10

\* Pointer positions tried: around the origin, around the threshold, and far.
Coords == {0, 1, RegionMin, RegionMin + 1, MaxCoord}

Min(a, b) == IF a < b THEN a ELSE b
Max(a, b) == IF a > b THEN a ELSE b

\* self.captured_image.crop(box)
Crop(box) == <<"captured_image", box>>

\* self.callback(region, cropped), noting the handler that made the call
RsCallback(region, img, by) ==
    rs_calls' = Append(rs_calls, [region |-> region, image |-> img, by |-> by])

RegionSelector_on_press(x, y) ==
    /\ rs_open
    /\ start_x' = x
    /\ start_y' = y
    /\ rect' = <<x, y, x, y>>
    /\ UNCHANGED <<rs_open, rs_calls>>

RegionSelector_on_drag(x, y) ==
    /\ rs_open
    /\ rect' = IF rect # Nil THEN <<start_x, start_y, x, y>> ELSE rect
    /\ UNCHANGED <<rs_open, start_x, start_y, rs_calls>>

\* Faulty variant: the size test with "or" in place of "and".
RegionSelector_on_release_Or(x, y) ==
    /\ rs_open
    /\ IF start_x = NoInt
       THEN UNCHANGED <<rs_open, rs_calls>>
       ELSE LET x1 == Min(start_x, x)
                y1 == Min(start_y, y)
                x2 == Max(start_x, x)
                y2 == Max(start_y, y)
            IN /\ rs_open' = FALSE
               /\ IF x2 - x1 > RegionMin \/ y2 - y1 > RegionMin
                  THEN RsCallback(<<x1, y1, x2, y2>>, Crop(<<x1, y1, x2, y2>>),
                                  "release")
                  ELSE RsCallback(Nil, Nil, "release")
    /\ UNCHANGED <<start_x, start_y, rect>>

\* Faulty variant: the overlay is left open when the callback is made.
RegionSelector_on_release_NoDestroy(x, y) ==
    /\ rs_open
    /\ IF start_x = NoInt
       THEN UNCHANGED <<rs_open, rs_calls>>
       ELSE LET x1 == Min(start_x, x)
                y1 == Min(start_y, y)
                x2 == Max(start_x, x)
                y2 == Max(start_y, y)
            IN /\ UNCHANGED rs_open
               /\ IF x2 - x1 > RegionMin /\ y2 - y1 > RegionMin
                  THEN RsCallback(<<x1, y1, x2, y2>>, Crop(<<x1, y1, x2, y2>>),
                                  "release")
                  ELSE RsCallback(Nil, Nil, "release")
    /\ UNCHANGED <<start_x, start_y, rect>>

RegionSelector_on_release(x, y) ==
    /\ rs_open
    /\ IF start_x = NoInt
       THEN UNCHANGED <<rs_open, rs_calls>>
       ELSE LET x1 == Min(start_x, x)
                y1 == Min(start_y, y)
                x2 == Max(start_x, x)
                y2 == Max(start_y, y)
            IN /\ rs_open' = FALSE
               /\ IF x2 - x1 > RegionMin /\ y2 - y1 > RegionMin
                  THEN RsCallback(<<x1, y1, x2, y2>>, Crop(<<x1, y1, x2, y2>>),
                                  "release")
                  ELSE RsCallback(Nil, Nil, "release")
    /\ UNCHANGED <<start_x, start_y, rect>>

\* Faulty variant: Escape reports the rectangle dragged so far.
RegionSelector_on_cancel_KeepsRect ==
    /\ rs_open
    /\ rs_open' = FALSE
    /\ IF rect # Nil
       THEN RsCallback(rect, Crop(rect), "escape")
       ELSE RsCallback(Nil, Nil, "escape")
    /\ UNCHANGED <<start_x, start_y, rect>>

RegionSelector_on_cancel ==
    /\ rs_open
    /\ rs_open' = FALSE
    /\ RsCallback(Nil, Nil, "escape")
    /\ UNCHANGED <<start_x, start_y, rect>>

RegionClosed ==
    /\ rs_open = FALSE
    /\ start_x = NoInt
    /\ start_y = NoInt
    /\ rect = Nil
    /\ rs_calls = <<>>

\* RegionSelector.__init__
InitRegion ==
    /\ rs_open = TRUE
    /\ start_x = NoInt
    /\ start_y = NoInt
    /\ rect = Nil
    /\ rs_calls = <<>>

(***************************************************************************)
(* WindowSelector: the overlay's event handlers.  A click or Escape that   *)
(* was already queued may still be dispatched after the first one was      *)
(* handled, which is what self.handled guards against.                     *)
(***************************************************************************)
Points == 0..MaxPoint
Hwnds == 1..MaxHwnd

WsCallback(hwnd, by) ==
    ws_calls' = Append(ws_calls, [hwnd |-> hwnd, by |-> by])

WindowSelector_on_click(p) ==
    IF handled
    THEN UNCHANGED <<handled, ws_open, ws_calls>>
    ELSE /\ handled' = TRUE
         /\ ws_open' = FALSE
         /\ LET hwnd == window_at[p]
            IN IF hwnd # 0
               THEN WsCallback(IF root_of[hwnd] # 0 THEN root_of[hwnd] ELSE hwnd,
                               "click")
               ELSE WsCallback(NoInt, "click")

\* Faulty variant: Escape without the handled test.
WindowSelector_on_cancel_NoGuard ==
    /\ handled' = TRUE
    /\ ws_open' = FALSE
    /\ WsCallback(NoInt, "escape")

WindowSelector_on_cancel ==
    IF handled
    THEN UNCHANGED <<handled, ws_open, ws_calls>>
    ELSE /\ handled' = TRUE
         /\ ws_open' = FALSE
         /\ WsCallback(NoInt, "escape")

WindowClosed ==
    /\ handled = FALSE
    /\ ws_open = FALSE
    /\ ws_calls = <<>>
    /\ window_at = [p \in Points |-> 0]
    /\ root_of = [h \in Hwnds |-> 0]

\* WindowSelector.__init__, on any layout of the windows on the screen
InitWindow ==
    /\ handled = FALSE
    /\ ws_open = TRUE
    /\ ws_calls = <<>>
    /\ window_at \in [Points -> {0} \cup Hwnds]
    /\ root_of \in [Hwnds -> {0} \cup Hwnds]

(***************************************************************************)
(* ScreenshotEditor.  A layer is kept as the number of drawings made on it *)
(* since it was created and the last of them; a drawing is the sequence of *)
(* ImageDraw calls one handler makes.                                      *)
(***************************************************************************)
COLORS == [yellow |-> <<255, 255, 0, 100>>, red |-> <<255, 0, 0, 100>>]
ColorNames == DOMAIN COLORS
DrawModes == {"highlight", "circle", "text"}
brush_size == 20                      \* the size slider is left where it starts
Scales == {<<1, 1>>, <<1, 2>>}        \* image shown full size, or halved
Texts == {"", "hi"}                   \* answers to the text prompt
\* Pointer positions on the canvas: a corner, and four points around the
\* opposite one.
Canvas ==
    {<<0, 0>>, <<MaxXY - 1, MaxXY - 1>>, <<MaxXY, MaxXY - 1>>,
     <<MaxXY - 1, MaxXY>>, <<MaxXY, MaxXY>>}

OUTLINE_COLOR == <<0, 0, 0, 150>>
TEXT_OFFSETS ==
    <<<<-1, -1>>, <<-1, 1>>, <<1, -1>>, <<1, 1>>,
      <<-1, 0>>, <<1, 0>>, <<0, -1>>, <<0, 1>>>>

\* Image.new('RGBA', size, (0, 0, 0, 0))
EmptyLayer == [n |-> 0, last |-> Nil]

\* ImageDraw.Draw(layer) followed by the calls of one handler
Draw(layer, calls) == [n |-> layer.n + 1, last |-> calls]

Primitive(op, xy, fill, outline, width, text) ==
    [op |-> op, xy |-> xy, fill |-> fill, outline |-> outline,
     width |-> width, text |-> text]

\* int(x / self.scale)
canvas_to_image_coords(x) == (x * scale[2]) \div scale[1]

\* image.copy().convert('RGBA') of the image handed to the editor
BaseImage == <<"image">>

\* Image.alpha_composite(base, layer): a new image, base where the layer is
\* transparent; a layer nothing was drawn on is transparent everywhere.
AlphaComposite(base, layer) ==
    IF layer = EmptyLayer THEN base ELSE <<"alpha_composite", base, layer>>

\* img.convert('RGB')
Convert(img) == <<"RGB", img>>

\* img.resize((self.display_w, self.display_h), LANCZOS)
Resize(img) == <<"resize", img>>

\* What update_display puts on the canvas for these layers.
Display(img, hl, pv) ==
    LET display_img == Convert(AlphaComposite(AlphaComposite(img, hl), pv))
    IN IF scale[1] < scale[2] THEN Resize(display_img) ELSE display_img

\* Faulty variant: the layers pasted into self.image itself.
update_display_InPlace(hl, pv) ==
    /\ image' = AlphaComposite(image, hl)
    /\ photo' = Display(AlphaComposite(image, hl), EmptyLayer, pv)

\* update_display, called with the layers as the handler has left them
update_display(hl, pv) ==
    /\ photo' = Display(image, hl, pv)
    /\ image' = image

\* The handler returns, or raises, before it reaches update_display.
NoRender == UNCHANGED <<image, photo>>

\* draw.ellipse([x - r, y - r, x + r, y + r], fill=color)
Stamp(x, y) ==
    LET r == brush_size \div 2
    IN Primitive("ellipse", <<x - r, y - r, x + r, y + r>>,
                 COLORS[current_color], Nil, 0, "")

draw_highlight(x, y) ==
    LET hl == Draw(highlight_layer, <<Stamp(x, y)>>)
    IN /\ highlight_layer' = hl
       /\ update_display(hl, preview_layer)

draw_line(x1, y1, x2, y2) ==
    LET hl == Draw(highlight_layer,
                   <<Primitive("line", <<x1, y1, x2, y2>>,
                               COLORS[current_color], Nil, brush_size, ""),
                     Stamp(x2, y2)>>)
    IN /\ highlight_layer' = hl
       /\ update_display(hl, preview_layer)

\* The stroked ellipse around (center_x, center_y): brush_size // 2 passes,
\* pass i drawn i pixels outside the rectangle given here.
StrokedEllipse(rx, ry) ==
    <<Primitive("ellipse",
                <<center_x - rx, center_y - ry, center_x + rx, center_y + ry>>,
                Nil, COLORS[current_color], brush_size \div 2, "")>>

Abs(n) == IF n < 0 THEN -n ELSE n

\* Faulty variant: the noise filter with "and" in place of "or".
draw_circle_preview_And(x, y) ==
    LET rx == Abs(x - center_x)
        ry == Abs(y - center_y)
        pv == IF rx > 2 /\ ry > 2
              THEN Draw(EmptyLayer, StrokedEllipse(rx, ry))
              ELSE EmptyLayer
    IN /\ preview_layer' = pv
       /\ update_display(highlight_layer, pv)

\* Faulty variant: the preview drawn over the previous preview.
draw_circle_preview_Accumulate(x, y) ==
    LET rx == Abs(x - center_x)
        ry == Abs(y - center_y)
        pv == IF rx > 2 \/ ry > 2
              THEN Draw(preview_layer, StrokedEllipse(rx, ry))
              ELSE preview_layer
    IN /\ preview_layer' = pv
       /\ update_display(highlight_layer, pv)

\* draw_circle_preview, once center_x and center_y are set
draw_circle_preview(x, y) ==
    LET rx == Abs(x - center_x)
        ry == Abs(y - center_y)
        pv == IF rx > 2 \/ ry > 2
              THEN Draw(EmptyLayer, StrokedEllipse(rx, ry))
              ELSE EmptyLayer
    IN /\ preview_layer' = pv
       /\ update_display(highlight_layer, pv)

\* Faulty variant: the noise filter one pixel lower.
commit_circle_From2(x, y) ==
    LET rx == Abs(x - center_x)
        ry == Abs(y - center_y)
        hl == IF rx > 1 \/ ry > 1
              THEN Draw(highlight_layer, StrokedEllipse(rx, ry))
              ELSE highlight_layer
    IN /\ preview_layer' = EmptyLayer
       /\ highlight_layer' = hl
       /\ update_display(hl, EmptyLayer)

\* commit_circle, once center_x and center_y are set
commit_circle(x, y) ==
    LET rx == Abs(x - center_x)
        ry == Abs(y - center_y)
        hl == IF rx > 2 \/ ry > 2
              THEN Draw(highlight_layer, StrokedEllipse(rx, ry))
              ELSE highlight_layer
    IN /\ preview_layer' = EmptyLayer
       /\ highlight_layer' = hl
       /\ update_display(hl, EmptyLayer)

\* draw_text: eight outline copies, then the text itself
draw_text(x, y, text) ==
    LET hl == Draw(highlight_layer,
                   [k \in 1..9 |->
                       IF k <= 8
                       THEN Primitive("text", <<x + TEXT_OFFSETS[k][1],
                                                y + TEXT_OFFSETS[k][2]>>,
                                      OUTLINE_COLOR, Nil, brush_size * 2, text)
                       ELSE Primitive("text", <<x, y>>, COLORS[current_color],
                                      Nil, brush_size * 2, text)])
    IN /\ highlight_layer' = hl
       /\ update_display(hl, preview_layer)

Pointer == <<drawing, last_x, last_y, lock_y, center_x, center_y>>
Tools == <<draw_mode, current_color, horizontal_lock>>

\* on_press; text is the answer to show_text_dialog's prompt in text mode
ScreenshotEditor_on_press(ex, ey, text) ==
    LET x == canvas_to_image_coords(ex)
        y == canvas_to_image_coords(ey)
    IN /\ ed_open
       /\ strokes < MaxStrokes
       /\ highlight_layer.n < MaxOps
       /\ strokes' = strokes + 1
       /\ IF draw_mode = "text"
          THEN /\ IF text # "" THEN draw_text(x, y, text)
                               ELSE UNCHANGED highlight_layer /\ NoRender
               /\ UNCHANGED Pointer
          ELSE /\ drawing' = TRUE
               /\ IF draw_mode = "circle"
                  THEN /\ center_x' = x
                       /\ center_y' = y
                       /\ UNCHANGED <<last_x, last_y, lock_y, highlight_layer>>
                       /\ NoRender
                  ELSE /\ last_x' = x
                       /\ last_y' = y
                       /\ lock_y' = IF horizontal_lock THEN y ELSE lock_y
                       /\ draw_highlight(x, y)
                       /\ UNCHANGED <<center_x, center_y>>
       /\ UNCHANGED <<ed_open, scale, Tools, preview_layer, ed_calls>>

\* Faulty variant: on_drag that never pins y to lock_y.
ScreenshotEditor_on_drag_NoPin(ex, ey) ==
    LET x == canvas_to_image_coords(ex)
        y == canvas_to_image_coords(ey)
    IN /\ ed_open
       /\ highlight_layer.n < MaxOps
       /\ drawing
       /\ draw_mode # "circle"
       /\ last_x # NoInt
       /\ draw_line(last_x, last_y, x, y)
       /\ last_x' = x
       /\ last_y' = y
       /\ UNCHANGED <<drawing, lock_y, center_x, center_y, preview_layer>>
       /\ UNCHANGED <<ed_open, scale, Tools, strokes, ed_calls>>

\* on_drag.  With center_x unset, draw_circle_preview raises after it has
\* cleared the preview layer; with last_x unset, draw_line raises before
\* it has drawn.
ScreenshotEditor_on_drag(ex, ey) ==
    LET x == canvas_to_image_coords(ex)
        y0 == canvas_to_image_coords(ey)
        y == IF horizontal_lock /\ lock_y # NoInt THEN lock_y ELSE y0
    IN /\ ed_open
       /\ IF ~drawing
          THEN UNCHANGED <<Pointer, highlight_layer, preview_layer>> /\ NoRender
          ELSE IF draw_mode = "circle"
          THEN /\ IF center_x = NoInt
                  THEN preview_layer' = EmptyLayer /\ NoRender
                  ELSE draw_circle_preview(x, y0)
               /\ UNCHANGED <<Pointer, highlight_layer>>
          ELSE IF last_x = NoInt
          THEN UNCHANGED <<Pointer, highlight_layer, preview_layer>> /\ NoRender
          ELSE /\ highlight_layer.n < MaxOps
               /\ draw_line(last_x, last_y, x, y)
               /\ last_x' = x
               /\ last_y' = y
               /\ UNCHANGED <<drawing, lock_y, center_x, center_y, preview_layer>>
       /\ UNCHANGED <<ed_open, scale, Tools, strokes, ed_calls>>

\* on_release.  With center_x unset, commit_circle raises after it has
\* cleared the preview layer, and the fields below it are not reset.
ScreenshotEditor_on_release(ex, ey) ==
    LET x == canvas_to_image_coords(ex)
        y == canvas_to_image_coords(ey)
    IN /\ ed_open
       /\ IF drawing /\ draw_mode = "circle" /\ center_x = NoInt
          THEN /\ preview_layer' = EmptyLayer
               /\ NoRender
               /\ UNCHANGED <<Pointer, highlight_layer>>
          ELSE /\ IF drawing /\ draw_mode = "circle"
                  THEN commit_circle(x, y)
                  ELSE UNCHANGED <<highlight_layer, preview_layer>> /\ NoRender
               /\ drawing' = FALSE
               /\ last_x' = NoInt
               /\ last_y' = NoInt
               /\ lock_y' = NoInt
               /\ center_x' = NoInt
               /\ center_y' = NoInt
       /\ UNCHANGED <<ed_open, scale, Tools, strokes, ed_calls>>

select_mode(mode) ==
    /\ ed_open
    /\ draw_mode' = mode
    /\ UNCHANGED <<ed_open, scale, current_color, horizontal_lock,
                   Pointer, highlight_layer, preview_layer, strokes, ed_calls>>
    /\ NoRender

select_color(color_name) ==
    /\ ed_open
    /\ current_color' = color_name
    /\ UNCHANGED <<ed_open, scale, draw_mode, horizontal_lock,
                   Pointer, highlight_layer, preview_layer, strokes, ed_calls>>
    /\ NoRender

\* The checkbox flips lock_var and then calls toggle_lock.
toggle_lock ==
    /\ ed_open
    /\ horizontal_lock' = ~horizontal_lock
    /\ UNCHANGED <<ed_open, scale, draw_mode, current_color,
                   Pointer, highlight_layer, preview_layer, strokes, ed_calls>>
    /\ NoRender

\* Image.alpha_composite(self.image, layer).convert('RGB')
Composite(img, layer) == Convert(AlphaComposite(img, layer))

\* The fields ScreenshotEditor.__init__ sets before any event.
EditorFields ==
    /\ draw_mode = "highlight"
    /\ current_color = "yellow"
    /\ horizontal_lock = FALSE
    /\ lock_y = NoInt
    /\ drawing = FALSE
    /\ last_x = NoInt
    /\ last_y = NoInt
    /\ center_x = NoInt
    /\ center_y = NoInt
    /\ highlight_layer = EmptyLayer
    /\ preview_layer = EmptyLayer

\* self.window.destroy(): the session ends and its fields with it
destroy ==
    /\ ed_open' = FALSE
    /\ draw_mode' = "highlight"
    /\ current_color' = "yellow"
    /\ horizontal_lock' = FALSE
    /\ lock_y' = NoInt
    /\ drawing' = FALSE
    /\ last_x' = NoInt
    /\ last_y' = NoInt
    /\ center_x' = NoInt
    /\ center_y' = NoInt
    /\ highlight_layer' = EmptyLayer
    /\ preview_layer' = EmptyLayer
    /\ photo' = Nil
    /\ UNCHANGED <<scale, image, strokes>>

\* save: the window is destroyed, then the callback gets the result
\* Faulty variant: the preview layer is flattened into the saved image too.
ScreenshotEditor_save_WithPreview ==
    /\ ed_open
    /\ destroy
    /\ ed_calls' = Append(ed_calls,
                          Convert(AlphaComposite(AlphaComposite(image, highlight_layer),
                                                 preview_layer)))

ScreenshotEditor_save ==
    /\ ed_open
    /\ destroy
    /\ ed_calls' = Append(ed_calls, Composite(image, highlight_layer))

\* Cancel button, Escape, or closing the window
ScreenshotEditor_cancel ==
    /\ ed_open
    /\ destroy
    /\ ed_calls' = Append(ed_calls, Nil)

EditorClosed ==
    /\ ed_open = FALSE
    /\ scale = <<1, 1>>
    /\ image = BaseImage
    /\ photo = Nil
    /\ EditorFields
    /\ strokes = 0
    /\ ed_calls = <<>>

\* ScreenshotEditor.__init__, for an image that fits the screen or not
InitEditor ==
    /\ ed_open = TRUE
    /\ scale \in Scales
    /\ image = BaseImage
    /\ photo = Display(BaseImage, EmptyLayer, EmptyLayer)
    /\ EditorFields
    /\ strokes = 0
    /\ ed_calls = <<>>

(***************************************************************************)
(* ScreenshotTool: the save directory, the clipboard and the disk quota.   *)
(* A file is a record of its folder ("" for the save directory itself),    *)
(* its name, the image it holds, its modification time and its size.       *)
(***************************************************************************)
PushTargets == {"chat"}             \* names of the entries of self.push_targets
TargetNames == {"", "chat", "gone"} \* values of the auto-send combobox variable
FolderNames == {"work"}

PngKiB == 50 * 1024                 \* st_size of every PNG of the model: 50 MB,
                                    \* sizes being counted in KiB
archive_days == 30                  \* self.archive_days.get()
DayTicks == 86400                   \* clock ticks (seconds) in a day
OldTime == 0 - (archive_days * DayTicks) - 1
DiskLimits == {100, 500}            \* two of the combobox values 100 .. 5000

\* A file left by an earlier session, older than the archive threshold
OldFile(k) ==
    [folder |-> "", name |-> Filename(0 - k), content |-> 0, mtime |-> OldTime,
     size |-> PngKiB]

RECURSIVE TotalKiB(_)
TotalKiB(fs) ==
    IF fs = {} THEN 0
    ELSE LET f == CHOOSE g \in fs : TRUE
         IN f.size + TotalKiB(fs \ {f})

\* self.save_dir.glob("screenshot_*.png"): the save directory itself only
RootFiles(d) == {f \in d : f.folder = ""}

\* usage_percent >= 90
Over90(d) ==
    LET total_kib == TotalKiB(RootFiles(d))
        limit_kib == disk_limit_mb * 1024
    IN limit_kib > 0 /\ total_kib * 100 >= 90 * limit_kib

\* Faulty variant: the prompt is scheduled whatever _cleanup_prompted says.
update_disk_usage_NoFlag(d, show_warning, prompted, timers) ==
    IF show_warning /\ Over90(d)
    THEN /\ cleanup_prompted' = TRUE
         /\ prompt_timers' = timers + 1
         /\ prompts_scheduled' = prompts_scheduled + 1
    ELSE /\ cleanup_prompted' = prompted
         /\ prompt_timers' = timers
         /\ UNCHANGED prompts_scheduled

\* update_disk_usage over the files d, with _cleanup_prompted and the
\* pending prompt timers as the caller has left them
update_disk_usage(d, show_warning, prompted, timers) ==
    IF show_warning /\ Over90(d) /\ ~prompted
    THEN /\ cleanup_prompted' = TRUE
         /\ prompt_timers' = timers + 1
         /\ prompts_scheduled' = prompts_scheduled + 1
    ELSE /\ cleanup_prompted' = prompted
         /\ prompt_timers' = timers
         /\ UNCHANGED prompts_scheduled

\* refresh_folder_bar: one button per subfolder get_folders finds, beside
\* the "All" button that is always there
refresh_folder_bar(fs) == folder_bar' = fs

\* The state __init__ leaves: refresh_folder_bar has run
InitWidgets == folder_bar = folders

\* The files refresh_gallery lists: those of the selected folder, or all
Listing(d, cf) == {<<f.folder, f.name>> : f \in {g \in d : cf = "" \/ g.folder = cf}}

refresh_gallery(d, cf, prompted, timers) ==
    /\ update_disk_usage(d, TRUE, prompted, timers)
    /\ gallery' = Listing(d, cf)

Quota == <<cleanup_prompted, prompt_timers, prompts_scheduled>>
AutoSend == <<auto_send_enabled, auto_send_target>>

\* How copy_to_clipboard can end: done, or an exception raised by the
\* conversion, by OpenClipboard, or by SetClipboardData after EmptyClipboard
ClipboardOutcomes == {"ok", "convert", "open", "set"}

copy_to_clipboard(img, outcome) ==
    /\ clipboard' = CASE outcome = "ok" -> img
                      [] outcome = "set" -> NoInt
                      [] OTHER -> clipboard
    /\ copy_failed' = (outcome # "ok")

\* img.save(str(filepath), "PNG"): a file of that name is replaced
WritePng(d, cf, filename, img) ==
    {f \in d : ~(f.folder = cf /\ f.name = filename)}
        \cup {[folder |-> cf, name |-> filename, content |-> img, mtime |-> now,
               size |-> PngKiB]}

\* Faulty variant: the exception of a failed copy leaves copy_to_clipboard.
CopyRaises_Uncaught(outcome) == outcome # "ok"

\* Whether an exception leaves copy_to_clipboard: its except clause catches
\* every Exception, and the CloseClipboard it then tries is guarded too.
CopyRaises(outcome) == FALSE

\* save_screenshot after copy_to_clipboard has returned
AfterCopy(filename, d) ==
    /\ screenshot_count' = screenshot_count + 1
    /\ status_var' = <<"Saved", current_folder, " & copied: ">> \o filename
    /\ refresh_gallery(d, current_folder, cleanup_prompted, prompt_timers)
    /\ pending' = IF auto_send_enabled /\ auto_send_target \in PushTargets
                  THEN Append(pending, auto_send_target)
                  ELSE pending

\* save_screenshot, with everything it calls
SaveAndCopy(img, outcome) ==
    LET filename == Filename(now)
        d == WritePng(disk, current_folder, filename, img)
    IN /\ disk' = d
       /\ folders' = IF current_folder # "" THEN folders \cup {current_folder}
                     ELSE folders
       /\ files' = files \cup {filename}
       /\ copy_to_clipboard(img, outcome)
       /\ IF CopyRaises(outcome)
          THEN UNCHANGED <<screenshot_count, status_var, gallery, pending, Quota>>
          ELSE AfterCopy(filename, d)
       /\ UNCHANGED <<current_folder, AutoSend, disk_limit_mb, last_dialog>>

\* Faulty variant: the editor's None is saved like an image.
OnEditorComplete_SavesNone(edited_image, outcome) ==
    SaveAndCopy(edited_image, outcome)

\* on_editor_complete(edited_image) on the save directory: NoInt is the
\* None of a cancelled editor, outcome how copy_to_clipboard ends.
OnEditorComplete(edited_image, outcome) ==
    IF edited_image = NoInt
    THEN /\ status_var' = <<"Screenshot discarded">>
         /\ UNCHANGED <<screenshot_count, files, StoreQuiet>>
    ELSE SaveAndCopy(edited_image, outcome)

select_folder(folder_name) ==
    /\ current_folder' = folder_name
    /\ refresh_folder_bar(folders)
    /\ refresh_gallery(disk, folder_name, cleanup_prompted, prompt_timers)
    /\ status_var' = IF folder_name # "" THEN <<"Showing: ", folder_name>>
                     ELSE <<"Showing: All screenshots">>
    /\ UNCHANGED <<folders, disk, clipboard, copy_failed, AutoSend, pending,
                   disk_limit_mb, last_dialog>>

\* f"{size_mb:.1f}": a size in tenths of a megabyte, rounded (no size of the
\* model falls halfway between two tenths)
Tenths(kib) == (kib * 20 + 1024) \div 2048

\* Faulty variant: the cleanup without the age test.
cleanup_old_screenshots_NoCutoff(unlinked, raised, timers) ==
    LET old == RootFiles(disk)
        d == disk \ unlinked
    IN /\ unlinked \subseteq old
       /\ raised => unlinked # old
       /\ ~raised => unlinked = old
       /\ disk' = d
       /\ IF raised
          THEN /\ last_dialog' = <<"showerror", "Error">>
               /\ prompt_timers' = timers
               /\ UNCHANGED <<gallery, cleanup_prompted, prompts_scheduled>>
          ELSE /\ last_dialog' = <<"showinfo", "Cleanup Complete",
                                   Cardinality(unlinked), Tenths(TotalKiB(unlinked))>>
               /\ IF unlinked # {}
                  THEN refresh_gallery(d, current_folder, FALSE, timers)
                  ELSE /\ prompt_timers' = timers
                       /\ UNCHANGED <<gallery, cleanup_prompted,
                                      prompts_scheduled>>
       /\ UNCHANGED <<current_folder, folders, clipboard, copy_failed,
                      status_var, AutoSend, pending, disk_limit_mb>>

\* How the deletions of cleanup_old_screenshots can end: all made, or
\* f.unlink() raising after some of them.  timers: the prompt timers pending
\* when it is called.  deleted_count and deleted_bytes have counted the
\* files unlinked when the loop ends without an exception, and "Cleanup
\* Complete" shows them.
cleanup_old_screenshots(unlinked, raised, timers) ==
    LET cutoff == now - archive_days * DayTicks
        old == {f \in RootFiles(disk) : f.mtime < cutoff}
        d == disk \ unlinked
        deleted_count == Cardinality(unlinked)
        deleted_bytes == TotalKiB(unlinked)
    IN /\ unlinked \subseteq old
       /\ raised => unlinked # old
       /\ ~raised => unlinked = old
       /\ disk' = d
       /\ IF raised
          THEN /\ last_dialog' = <<"showerror", "Error">>
               /\ prompt_timers' = timers
               /\ UNCHANGED <<gallery, cleanup_prompted, prompts_scheduled>>
          ELSE /\ last_dialog' = <<"showinfo", "Cleanup Complete",
                                   deleted_count, Tenths(deleted_bytes)>>
               /\ IF deleted_count > 0
                  THEN refresh_gallery(d, current_folder, FALSE, timers)
                  ELSE /\ prompt_timers' = timers
                       /\ UNCHANGED <<gallery, cleanup_prompted,
                                      prompts_scheduled>>
       /\ UNCHANGED <<current_folder, folders, clipboard, copy_failed,
                      status_var, AutoSend, pending, disk_limit_mb>>

\* The user's answer to an askyesno about a cleanup, and the cleanup if any
AskCleanup(title, result, unlinked, raised, timers) ==
    IF result
    THEN cleanup_old_screenshots(unlinked, raised, timers)
    ELSE /\ unlinked = {}
         /\ ~raised
         /\ last_dialog' = <<"askyesno", title>>
         /\ prompt_timers' = timers
         /\ UNCHANGED <<current_folder, folders, disk, clipboard, copy_failed,
                        status_var, gallery, AutoSend, pending, disk_limit_mb,
                        cleanup_prompted, prompts_scheduled>>

\* The timer set by update_disk_usage fires
prompt_cleanup(result, unlinked, raised) ==
    /\ prompt_timers > 0
    /\ AskCleanup("Disk Space Warning", result, unlinked, raised,
                  prompt_timers - 1)

\* The "clean up" button of the settings dialog
manual_cleanup(result, unlinked, raised) ==
    AskCleanup("Confirm Cleanup", result, unlinked, raised, prompt_timers)

\* The disk-limit combobox of the settings dialog
on_limit_change(limit) ==
    /\ disk_limit_mb' = limit
    /\ UNCHANGED <<current_folder, folders, disk, clipboard, copy_failed,
                   status_var, gallery, AutoSend, pending, Quota, last_dialog>>

\* The auto-send checkbox of the settings dialog
ToggleAutoSend ==
    /\ auto_send_enabled' = ~auto_send_enabled
    /\ UNCHANGED <<current_folder, folders, disk, clipboard, copy_failed,
                   status_var, gallery, auto_send_target, pending,
                   disk_limit_mb, Quota, last_dialog>>

InitStore ==
    /\ current_folder = ""
    /\ folders = {}
    /\ disk = {}
    /\ clipboard = NoInt
    /\ copy_failed = FALSE
    /\ status_var = <<"Ready">>
    /\ gallery = {}
    /\ auto_send_enabled = FALSE
    /\ auto_send_target = ""
    /\ pending = <<>>
    /\ disk_limit_mb = 500
    /\ cleanup_prompted = FALSE
    /\ prompt_timers = 0
    /\ prompts_scheduled = 0
    /\ last_dialog = Nil

\* The tool started on a save directory that may hold old screenshots and a
\* subfolder, with the auto-send settings read from the config file; the
\* refresh_gallery of __init__ has run.
InitSaveDir ==
    /\ current_folder = ""
    /\ folders = FolderNames
    /\ \E n \in 0..MaxOld : disk = {OldFile(k) : k \in 1..n}
    /\ clipboard = NoInt
    /\ copy_failed = FALSE
    /\ status_var = <<"Ready">>
    /\ gallery = Listing(disk, "")
    /\ auto_send_enabled \in BOOLEAN
    /\ auto_send_target \in TargetNames
    /\ pending = <<>>
    /\ disk_limit_mb = 500
    /\ cleanup_prompted = Over90(disk)
    /\ prompt_timers = IF Over90(disk) THEN 1 ELSE 0
    /\ prompts_scheduled = prompt_timers
    /\ last_dialog = Nil

(***************************************************************************)
(* ScreenshotTool: pasting the clipboard into a push target.  A window     *)
(* title and a title pattern are sequences of characters; a window handle  *)
(* is the window's place in the enumeration.                               *)
(***************************************************************************)
Titles == {<<"A", "b">>, <<"b", "a">>, <<"b">>}
Patterns == {<<"A">>, <<"a", "b">>}

\* An offset that may be None: Nil, or the one-tuple of its value
ClickXs == {Nil, <<5>>}
ClickYs == {Nil, <<0 - 7>>}
OffsetTypes == {"", "relative_bottom_center"}

\* str.lower, on the characters of the model
LowerChar(c) == IF c = "A" THEN "a" ELSE c
Lower(str) == [i \in 1..Len(str) |-> LowerChar(str[i])]

\* pat in str
Contains(pat, str) ==
    \E i \in 0..(Len(str) - Len(pat)) : SubSeq(str, i + 1, i + Len(pat)) = pat

\* enum_callback: the handles EnumWindows collects, in its order
RECURSIVE EnumWindows(_, _)
EnumWindows(tgt, h) ==
    IF h > Len(windows) THEN <<>>
    ELSE (IF /\ windows[h].visible
             /\ Contains(Lower(tgt.title_pattern), Lower(windows[h].title))
          THEN <<h>> ELSE <<>>) \o EnumWindows(tgt, h + 1)

\* win32gui.GetWindowRect(hwnd): left, top, right, bottom
GetWindowRect(hwnd) == <<100 * hwnd, 10 * hwnd, 100 * hwnd + 80, 10 * hwnd + 60>>

\* Faulty variant: the last matching window is taken.
ChosenWindow_Last(results) == results[Len(results)]

\* hwnd = results[0]
ChosenWindow(results) == results[1]

\* How a call can end: done, or an exception raised by EnumWindows, inside
\* _force_foreground_window, by GetWindowRect, by pyautogui.click or by
\* pyautogui.hotkey
PasteOutcomes == {"ok", "enum", "foreground", "rect", "click", "hotkey"}

\* _force_foreground_window: a click in the middle of the window, unless an
\* exception, which it swallows, comes first
force_foreground_window(hwnd, outcome) ==
    LET r == GetWindowRect(hwnd)
    IN IF outcome = "foreground" THEN <<>>
       ELSE << <<"click", (r[1] + r[3]) \div 2, (r[2] + r[4]) \div 2>> >>

\* The point of the click at the configured offset
ClickPoint(tgt, hwnd) ==
    LET r == GetWindowRect(hwnd)
        win_width == r[3] - r[1]
        win_height == r[4] - r[2]
    IN IF tgt.offset_type = "relative_bottom_center"
       THEN <<r[1] + win_width \div 2 + tgt.click_x[1],
              r[2] + win_height + tgt.click_y[1]>>
       ELSE <<r[1] + tgt.click_x[1], r[2] + tgt.click_y[1]>>

\* Faulty variant: the paste keystroke goes out before the click.
InputOrder_PasteFirst(activate, click, hotkey) == activate \o hotkey \o click

\* The order of the input paste_to_target synthesizes
InputOrder(activate, click, hotkey) == activate \o click \o hotkey

\* paste_to_target(target), as the timer set by save_screenshot or
\* send_to_target runs it
paste_to_target(tgt, outcome) ==
    LET results == EnumWindows(tgt, 1)
        hwnd == ChosenWindow(results)
        clicks == tgt.click_x # Nil /\ tgt.click_y # Nil
        failed == <<"Paste to ", tgt.name, " failed: ", outcome>>
        activate == force_foreground_window(hwnd, outcome)
        click == IF clicks /\ outcome \notin {"rect", "click"}
                 THEN << <<"click", ClickPoint(tgt, hwnd)[1],
                           ClickPoint(tgt, hwnd)[2]>> >>
                 ELSE <<>>
        raised == \/ outcome = "hotkey"
                  \/ clicks /\ outcome \in {"rect", "click"}
        hotkey == IF raised THEN <<>> ELSE << <<"hotkey", "ctrl+v">> >>
    IN IF outcome = "enum"
       THEN /\ status_var' = failed
            /\ paste_results' = Append(paste_results, FALSE)
            /\ UNCHANGED input_events
       ELSE IF results = <<>>
       THEN /\ status_var' = <<"'", tgt.name, "' window not found">>
            /\ paste_results' = Append(paste_results, FALSE)
            /\ UNCHANGED input_events
       ELSE /\ input_events' = input_events \o InputOrder(activate, click, hotkey)
            /\ status_var' = IF raised THEN failed
                             ELSE <<"Pasted to ", tgt.name, "!">>
            /\ paste_results' = Append(paste_results, ~raised)

\* A timer root.after(.., lambda: self.paste_to_target(target)) fires
PasteTimer ==
    \E outcome \in PasteOutcomes :
        /\ pending # <<>>
        /\ pending' = Tail(pending)
        /\ paste_to_target(target, outcome)
        /\ UNCHANGED <<current_folder, folders, disk, clipboard, copy_failed,
                       gallery, AutoSend, disk_limit_mb, Quota, last_dialog,
                       windows, target>>

\* send_to_target(screenshot_path, target_name), from a thumbnail's menu
send_to_target(f, target_name, outcome) ==
    /\ f \in disk
    /\ copy_to_clipboard(f.content, outcome)
    /\ pending' = IF target_name = target.name THEN Append(pending, target_name)
                  ELSE pending
    /\ UNCHANGED <<current_folder, folders, disk, status_var, gallery, AutoSend,
                   disk_limit_mb, Quota, last_dialog>>

\* No window is known and nothing was pasted: the state the other
\* specifications stay in
InitPaste ==
    /\ windows = <<>>
    /\ target = [name |-> "chat", title_pattern |-> <<"A">>, click_x |-> Nil,
                 click_y |-> Nil, offset_type |-> ""]
    /\ input_events = <<>>
    /\ paste_results = <<>>

\* Some windows are on the desktop, and the target is configured somehow
InitDesktop ==
    /\ windows \in UNION {[1..n -> [title : Titles, visible : BOOLEAN]] :
                             n \in 0..MaxWindows}
    /\ target \in [name : {"chat"}, title_pattern : Patterns, click_x : ClickXs,
                   click_y : ClickYs, offset_type : OffsetTypes]
    /\ input_events = <<>>
    /\ paste_results = <<>>

(***************************************************************************)
(* ScreenshotTool: folders, and moving and deleting screenshots.           *)
(***************************************************************************)
\* What is typed into the rename dialog, and what the sanitising of line
\* 2086 leaves of it: "/" is neither alphanumeric nor ' ', '-' or '_'.
NewNames == {"", "work", "done", "do/ne", "/"}

Sanitize(new_name) ==
    CASE new_name = "/" -> ""
      [] new_name = "do/ne" -> "done"
      [] OTHER -> new_name

\* f"{img.stem}_moved{img.suffix}"
MovedName(name) == SubSeq(name, 1, Len(name) - 1) \o <<"_moved", ".png">>

\* (self.save_dir / folder / name).exists()
Exists(d, folder, name) == \E f \in d : f.folder = folder /\ f.name = name

\* shutil.move(src, dest): a file already at dest is replaced
Move(d, f, folder, name) ==
    {g \in d : g # f /\ ~(g.folder = folder /\ g.name = name)}
        \cup {[f EXCEPT !.folder = folder, !.name = name]}

\* list(folder_path.glob("*.png")): the folder's images, in any order
Orders(S) ==
    {s \in [1..Cardinality(S) -> S] :
        \A i, j \in 1..Cardinality(S) : i # j => s[i] # s[j]}

\* The loop of delete_folder over the images, as far as it gets
RECURSIVE MoveToRoot(_, _)
MoveToRoot(d, images) ==
    IF images = <<>> THEN d
    ELSE LET img == images[1]
             dest == IF Exists(d, "", img.name) THEN MovedName(img.name)
                     ELSE img.name
         IN MoveToRoot(Move(d, img, "", dest), Tail(images))

\* What no folder operation touches
Desk == <<clipboard, copy_failed, AutoSend, pending, disk_limit_mb>>

\* What a refresh of the gallery and a status message change, and with the
\* folder bar
Listed == <<status_var, gallery, Quota>>
Shown == <<Listed, folder_bar>>

\* delete_screenshot(filepath): answer is the user's, raises that os.remove
\* raises.
delete_screenshot(f, answer, raises) ==
    /\ f \in disk
    /\ IF ~answer
       THEN /\ last_dialog' = <<"askyesno", "Delete Screenshot">>
            /\ UNCHANGED <<disk, Shown>>
       ELSE IF raises
       THEN /\ showerror("Could not delete")
            /\ UNCHANGED <<disk, Shown>>
       ELSE /\ disk' = disk \ {f}
            /\ status_var' = <<"Deleted: ">> \o f.name
            /\ UNCHANGED folder_bar
            /\ refresh_gallery(disk \ {f}, current_folder, cleanup_prompted,
                               prompt_timers)
            /\ last_dialog' = <<"askyesno", "Delete Screenshot">>
    /\ UNCHANGED <<current_folder, folders, Desk>>

\* Faulty variant: the move is made whatever the answer to "File Exists".
move_to_folder_NoAsk(f, folder_name, overwrite, raises) ==
    LET d == Move(disk, f, folder_name, f.name)
    IN /\ f \in disk
       /\ UNCHANGED <<current_folder, Desk>>
       /\ IF raises # "no"
          THEN /\ showerror("Could not move file")
               /\ UNCHANGED <<folders, disk, Listed>>
          ELSE /\ folders' = IF folder_name # "" THEN folders \cup {folder_name}
                             ELSE folders
               /\ disk' = d
               /\ refresh_gallery(d, current_folder, cleanup_prompted,
                                  prompt_timers)
               /\ status_var' = <<"Moved to ", folder_name, ": ">> \o f.name
               /\ UNCHANGED last_dialog

\* move_to_folder(filepath, folder_name): overwrite is the answer to "File
\* Exists", raises names the call that raises ("no": none).
move_to_folder(f, folder_name, overwrite, raises) ==
    LET asked == Exists(disk, folder_name, f.name) /\ f.folder # folder_name
        d == Move(disk, f, folder_name, f.name)
    IN /\ f \in disk
       /\ UNCHANGED <<current_folder, Desk>>
       /\ IF raises = "mkdir" /\ folder_name # ""
          THEN /\ showerror("Could not move file")
               /\ UNCHANGED <<folders, disk, Listed>>
          ELSE /\ folders' = IF folder_name # "" THEN folders \cup {folder_name}
                             ELSE folders
               /\ IF asked /\ ~overwrite
                  THEN /\ last_dialog' = <<"askyesno", "File Exists">>
                       /\ UNCHANGED <<disk, Listed>>
                  ELSE IF raises = "move"
                  THEN /\ showerror("Could not move file")
                       /\ UNCHANGED <<disk, Listed>>
                  ELSE /\ disk' = d
                       /\ refresh_gallery(d, current_folder, cleanup_prompted,
                                          prompt_timers)
                       /\ status_var' = <<"Moved to ", folder_name, ": ">> \o f.name
                       /\ last_dialog' = IF asked
                                         THEN <<"askyesno", "File Exists">>
                                         ELSE last_dialog

\* rename_folder(old_name), do_rename: typed is the entry's text, raises that
\* old_path.rename raises.
rename_folder(old_name, typed, raises) ==
    LET new_name == Sanitize(typed)
        d == {IF f.folder = old_name THEN [f EXCEPT !.folder = new_name] ELSE f :
                 f \in disk}
        cf == IF current_folder = old_name THEN new_name ELSE current_folder
    IN /\ old_name \in folders
       /\ UNCHANGED Desk
       /\ IF typed = "" \/ typed = old_name
          THEN UNCHANGED <<current_folder, folders, disk, Shown, last_dialog>>
          ELSE IF new_name = ""
          THEN /\ showerror("Invalid folder name")
               /\ UNCHANGED <<current_folder, folders, disk, Shown>>
          ELSE IF new_name \in folders
          THEN /\ showerror("Folder already exists")
               /\ UNCHANGED <<current_folder, folders, disk, Shown>>
          ELSE IF raises
          THEN /\ showerror("Could not rename folder")
               /\ UNCHANGED <<current_folder, folders, disk, Shown>>
          ELSE /\ folders' = (folders \ {old_name}) \cup {new_name}
               /\ disk' = d
               /\ current_folder' = cf
               /\ refresh_folder_bar((folders \ {old_name}) \cup {new_name})
               /\ refresh_gallery(d, cf, cleanup_prompted, prompt_timers)
               /\ status_var' = <<"Renamed: ", old_name, new_name>>
               /\ UNCHANGED last_dialog

\* delete_folder(folder_name): result is the answer to "Delete Folder",
\* images the folder's PNG files in glob order, moved how many of them
\* shutil.move has moved when it raises (all of them: it does not raise),
\* rmdir_raises that folder_path.rmdir() raises.  The loop runs outside the
\* try: an exception of shutil.move leaves the handler.
delete_folder(folder_name, result, images, moved, rmdir_raises) ==
    LET d == MoveToRoot(disk, SubSeq(images, 1, moved))
        cf == IF current_folder = folder_name THEN "" ELSE current_folder
        asked == IF images # <<>> THEN <<"askyesnocancel", "Delete Folder">>
                 ELSE last_dialog
    IN /\ folder_name \in folders
       /\ images \in Orders({f \in disk : f.folder = folder_name})
       /\ moved \in 0..Len(images)
       /\ UNCHANGED Desk
       /\ IF images # <<>> /\ ~result
          THEN /\ last_dialog' = asked
               /\ UNCHANGED <<current_folder, folders, disk, Shown>>
          ELSE IF moved < Len(images)
          THEN /\ disk' = d
               /\ last_dialog' = asked
               /\ UNCHANGED <<current_folder, folders, Shown>>
          ELSE IF rmdir_raises
          THEN /\ disk' = d
               /\ showerror("Could not delete folder")
               /\ UNCHANGED <<current_folder, folders, Shown>>
          ELSE /\ disk' = d
               /\ folders' = folders \ {folder_name}
               /\ current_folder' = cf
               /\ refresh_folder_bar(folders \ {folder_name})
               /\ refresh_gallery(d, cf, cleanup_prompted, prompt_timers)
               /\ status_var' = <<"Deleted folder: ", folder_name>>
               /\ last_dialog' = asked

\* create_new_folder, create: typed is the entry's text, raises that
\* folder_path.mkdir raises.
create_new_folder(typed, raises) ==
    LET name == Sanitize(typed)
        fs == folders \cup {name}
    IN /\ UNCHANGED <<disk, Desk>>
       /\ IF typed = ""
          THEN UNCHANGED <<current_folder, folders, Shown, last_dialog>>
          ELSE IF name = ""
          THEN /\ showerror("Invalid folder name")
               /\ UNCHANGED <<current_folder, folders, Shown>>
          ELSE IF raises
          THEN /\ showerror("Could not create folder")
               /\ UNCHANGED <<current_folder, folders, Shown>>
          ELSE /\ folders' = fs
               /\ current_folder' = name
               /\ refresh_folder_bar(fs)
               /\ refresh_gallery(disk, name, cleanup_prompted, prompt_timers)
               /\ status_var' = <<"Showing: ", name>>
               /\ UNCHANGED last_dialog

\* The directories filedialog.askdirectory can come back with, each with
\* its subfolders and its PNG files
Directories == {[folders |-> {}, disk |-> {}], [folders |-> {"done"}, disk |-> {}]}

\* change_save_dir: new_dir is the directory chosen, Nil if the dialog was
\* cancelled.  From then on the subfolders and files are those of new_dir.
change_save_dir(new_dir) ==
    IF new_dir = Nil
    THEN UNCHANGED <<current_folder, folders, disk, Desk, Shown, last_dialog>>
    ELSE /\ folders' = new_dir.folders
         /\ disk' = new_dir.disk
         /\ refresh_gallery(new_dir.disk, current_folder, cleanup_prompted,
                            prompt_timers)
         /\ status_var' = <<"Save location changed to: ">>
         /\ UNCHANGED <<current_folder, folder_bar, Desk, last_dialog>>

\* The screenshots the folder operations start from: two of one name, in the
\* save directory and in the folder, and one more in the folder whose name
\* is what the loop of delete_folder makes of the other's.
FolderFiles ==
    {[folder |-> "", name |-> Filename(1), content |-> 1, mtime |-> 0,
      size |-> PngKiB],
     [folder |-> "work", name |-> Filename(1), content |-> 2, mtime |-> 0,
      size |-> PngKiB],
     [folder |-> "work", name |-> MovedName(Filename(1)), content |-> 3,
      mtime |-> 0, size |-> PngKiB]}

InitFolders ==
    /\ current_folder = ""
    /\ folders = FolderNames
    /\ disk \in SUBSET FolderFiles
    /\ clipboard = NoInt
    /\ copy_failed = FALSE
    /\ status_var = <<"Ready">>
    /\ gallery = Listing(disk, current_folder)
    /\ auto_send_enabled = FALSE
    /\ auto_send_target = ""
    /\ pending = <<>>
    /\ disk_limit_mb = 500
    /\ cleanup_prompted = FALSE
    /\ prompt_timers = 0
    /\ prompts_scheduled = 0
    /\ last_dialog = Nil

(***************************************************************************)
(* DelayCountdown.  A countdown is a record of the seconds it was created  *)
(* with, self.seconds_left, whether self.window exists, whether a          *)
(* window.after(1000, self.tick) is pending, the number last shown on the  *)
(* label, the one-second waits that have ended in a tick, and the calls of *)
(* self.callback made so far.                                              *)
(***************************************************************************)
CountdownSeconds == {3, 5}          \* two of the delay combobox values 3, 5, 10

\* DelayCountdown.tick
DelayCountdown_tick(c) ==
    IF c.seconds_left <= 0
    THEN [c EXCEPT !.open = FALSE, !.calls = Append(@, TRUE)]
    ELSE [c EXCEPT !.label = c.seconds_left,
                   !.seconds_left = @ - 1,
                   !.timer = TRUE]

\* DelayCountdown.__init__, which ends by calling tick()
DelayCountdown_init(seconds) ==
    /\ Len(countdowns) < MaxCountdowns
    /\ countdowns' =
          Append(countdowns,
                 DelayCountdown_tick([seconds |-> seconds, seconds_left |-> seconds,
                                      open |-> TRUE, timer |-> FALSE,
                                      label |-> NoInt, waited |-> 0,
                                      calls |-> <<>>]))

\* The timer of window.after(1000, self.tick) fires.  Destroying the window
\* deletes the Tcl command of the callback: the timer of a destroyed window
\* runs nothing.
TimerFires(i) ==
    /\ countdowns[i].timer
    /\ countdowns' =
          [countdowns EXCEPT ![i] =
              IF @.open
              THEN DelayCountdown_tick([@ EXCEPT !.timer = FALSE,
                                                 !.waited = @ + 1])
              ELSE [@ EXCEPT !.timer = FALSE]]

\* Faulty variant: cancel without destroying the window.
DelayCountdown_cancel_NoDestroy(i) ==
    /\ countdowns[i].open
    /\ countdowns' = [countdowns EXCEPT ![i].calls = Append(@, FALSE)]

\* DelayCountdown.cancel (the Cancel button, or Escape)
DelayCountdown_cancel(i) ==
    /\ countdowns[i].open
    /\ countdowns' = [countdowns EXCEPT ![i].open = FALSE,
                                        ![i].calls = Append(@, FALSE)]

NoCountdown == countdowns = <<>>


(***************************************************************************)
(* ScreenshotTool: global hotkeys.                                         *)
(***************************************************************************)
\* self.hotkey_full, self.hotkey_region, self.hotkey_window, in the order
\* register_hotkeys and unregister_hotkeys go through them
CaptureChords == <<"ctrl+shift+s", "ctrl+shift+r", "ctrl+shift+w">>
TempChord == "ctrl+shift+t"

RECURSIVE Bound(_)
Bound(chords) ==
    IF chords = <<>> THEN EmptyBag
    ELSE SetToBag({chords[1]}) (+) Bound(Tail(chords))

\* The chords a loop over CaptureChords gets through when the call for the
\* chord number raises_at raises (0: none raises)
Before(raises_at) ==
    IF raises_at = 0 THEN CaptureChords
    ELSE SubSeq(CaptureChords, 1, raises_at - 1)

\* What register_hotkeys, called from __init__, leaves: the chords bound
\* before an add_hotkey raised, and the flag set only if none did.
register_hotkeys(raises_at) ==
    /\ hotkeys = Bound(Before(raises_at))
    /\ hotkeys_registered = (raises_at = 0)

\* unregister_hotkeys: nothing unless self.hotkeys_registered; an exception
\* of remove_hotkey ends it silently.
unregister_hotkeys(raises_at) ==
    IF hotkeys_registered
    THEN hotkeys' = hotkeys (-) Bound(Before(raises_at))
    ELSE UNCHANGED hotkeys

\* on_close: the handler of WM_DELETE_WINDOW
on_close(raises_at) ==
    /\ ~closed
    /\ unregister_hotkeys(raises_at)
    /\ closed' = TRUE
    /\ UNCHANGED <<hotkeys_registered, registrations, iconified, status_var>>

\* capture_target_position: the Advanced mode of "Add Push Target"
capture_target_position ==
    /\ ~closed
    /\ CopiesIn(TempChord, hotkeys) + registrations < MaxTemp
    /\ status_var' = <<"Click in target app, then press Ctrl+Shift+T...">>
    /\ iconified' = TRUE
    /\ hotkeys' = hotkeys (+) SetToBag({TempChord})
    /\ UNCHANGED <<hotkeys_registered, closed, registrations>>

\* on_capture, the callback of the temporary hotkey: outcome "win32" is an
\* exception of GetForegroundWindow, GetWindowText or GetWindowRect.
on_capture(outcome) ==
    /\ ~closed
    /\ BagIn(TempChord, hotkeys)
    /\ iconified' = FALSE
    /\ IF outcome = "ok"
       THEN /\ hotkeys' = hotkeys (-) SetToBag({TempChord})
            /\ registrations' = registrations + 1
       ELSE UNCHANGED <<hotkeys, registrations>>
    /\ UNCHANGED <<hotkeys_registered, closed, status_var>>

\* finish_target_registration opens its dialog
finish_target_registration ==
    /\ ~closed
    /\ registrations > 0
    /\ registrations' = registrations - 1
    /\ UNCHANGED <<hotkeys, hotkeys_registered, closed, iconified, status_var>>

\* The state __init__ leaves when every add_hotkey succeeds
InitHotkeys ==
    /\ hotkeys = Bound(CaptureChords)
    /\ hotkeys_registered = TRUE
    /\ closed = FALSE
    /\ registrations = 0

(***************************************************************************)
(* Dragging a thumbnail.  The handlers of make_drag_handlers belong to one *)
(* thumbnail each; the pointer button is held on one thumbnail at a time   *)
(* and on_press resets the closure, so the model keeps the closure of the  *)
(* thumbnail that is held.  Pointer positions are root coordinates; the    *)
(* colours do_drag gives the buttons are not modelled.                     *)
(***************************************************************************)
DragThreshold == 5

\* Where the pointer button goes down, and where the pointer is seen later
PressPoints == {<<0, 0>>, <<5, 5>>}
DragPoints == {<<0, 0>>, <<5, 5>>, <<6, 0>>, <<0, 6>>, <<20, 0>>, <<40, 0>>}

\* The place of a button of the folder bar ("" is the "All" button)
ButtonSpot(folder_name) ==
    IF folder_name = "" THEN <<20, 0>>
    ELSE IF folder_name = "work" THEN <<40, 0>>
    ELSE <<60, 0>>

\* The keys of self.folder_drop_targets whose button holds the point
TargetsAt(event) == {fn \in {""} \cup folder_bar : ButtonSpot(fn) = event}

NoDrag ==
    /\ held = Nil
    /\ drag_started = FALSE
    /\ start_pos = <<0, 0>>
    /\ drag_filepath = Nil
    /\ drag_label = Nil
    /\ opened = <<>>
    /\ strayed = FALSE

\* open_image(filepath): raises is that os.startfile raises
open_image(f, raises) ==
    /\ IF raises
       THEN /\ showerror("Could not open image")
            /\ UNCHANGED opened
       ELSE /\ opened' = Append(opened, f)
            /\ UNCHANGED last_dialog
    /\ UNCHANGED <<current_folder, folders, disk, Desk, Listed>>

\* start_drag(event, filepath, photo): raises is that the Toplevel of the
\* drag label cannot be made
start_drag(event, f, raises) ==
    /\ drag_filepath' = f
    /\ drag_label' = IF raises THEN Nil ELSE <<event[1] + 10, event[2] + 10>>

\* do_drag(event)
do_drag(event) ==
    /\ drag_label' = IF drag_filepath # Nil /\ drag_label # Nil
                     THEN <<event[1] + 10, event[2] + 10>>
                     ELSE drag_label
    /\ UNCHANGED drag_filepath

\* Faulty variant: the drag state is cleared only when the drop hit a button.
end_drag_DropOnly(event, overwrite, raises) ==
    LET hit == TargetsAt(event)
        f == drag_filepath
    IN IF f = Nil \/ hit = {}
       THEN UNCHANGED <<stVars, folder_bar, drag_filepath, drag_label>>
       ELSE /\ LET folder_name == CHOOSE fn \in hit : TRUE
               IN IF folder_name # f.folder
                  THEN move_to_folder(f, folder_name, overwrite, raises)
                  ELSE UNCHANGED stVars
            /\ drag_label' = Nil
            /\ drag_filepath' = Nil
            /\ refresh_folder_bar(folders')

\* end_drag(event): overwrite and raises are those of move_to_folder
end_drag(event, overwrite, raises) ==
    LET hit == TargetsAt(event)
        f == drag_filepath
    IN IF f = Nil
       THEN UNCHANGED <<stVars, folder_bar, drag_filepath, drag_label>>
       ELSE /\ IF hit # {} /\ (CHOOSE fn \in hit : TRUE) # f.folder
               THEN move_to_folder(f, CHOOSE fn \in hit : TRUE, overwrite, raises)
               ELSE UNCHANGED stVars
            /\ drag_label' = Nil
            /\ drag_filepath' = Nil
            /\ refresh_folder_bar(folders')

\* make_drag_handlers(path, img_photo).on_press
on_press(f, event) ==
    /\ held' = f
    /\ start_pos' = event
    /\ drag_started' = FALSE
    /\ UNCHANGED <<drag_filepath, drag_label, opened>>

\* make_drag_handlers(path, img_photo).on_motion
on_motion(event, raises) ==
    /\ IF ~drag_started
       THEN LET dx == Abs(event[1] - start_pos[1])
                dy == Abs(event[2] - start_pos[2])
            IN IF dx > 5 \/ dy > 5
               THEN /\ drag_started' = TRUE
                    /\ start_drag(event, held, raises)
               ELSE UNCHANGED <<drag_started, drag_filepath, drag_label>>
       ELSE /\ do_drag(event)
            /\ UNCHANGED drag_started
    /\ UNCHANGED <<held, start_pos, opened>>

\* make_drag_handlers(path, img_photo).on_release: fails is that
\* os.startfile raises
on_release(event, overwrite, raises, fails) ==
    /\ IF drag_started
       THEN /\ end_drag(event, overwrite, raises)
            /\ UNCHANGED opened
       ELSE /\ open_image(held, fails)
            /\ UNCHANGED <<folder_bar, drag_filepath, drag_label>>
    /\ held' = Nil
    /\ UNCHANGED <<drag_started, start_pos>>

(***************************************************************************)
(* The hover overlays.  A thumbnail's handlers keep overlay_window, the    *)
(* overlay they made (0 for None; the reference stays when someone else    *)
(* destroys the window), and hide_timer, whether an after(100,             *)
(* hide_overlay_now) of the thumbnail's container is pending.              *)
(***************************************************************************)
Thumbs == 1..MaxThumbs

NoHover == [overlay_window |-> 0, hide_timer |-> FALSE]

Away == <<"away", 0>>

NoOverlay ==
    /\ hover = [t \in Thumbs |-> NoHover]
    /\ hide_timers = [t \in Thumbs |-> 0]
    /\ floating_windows = <<>>
    /\ toplevels = {}
    /\ overlay_thumb = <<>>
    /\ pointer = Away

Range(seq) == {seq[i] : i \in 1..Len(seq)}

\* cleanup_floating_windows
cleanup_floating_windows ==
    /\ drag_label' = Nil
    /\ toplevels' = toplevels \ Range(floating_windows)
    /\ floating_windows' = <<>>

\* schedule_cleanup, every 5 seconds
schedule_cleanup == cleanup_floating_windows

\* The files the gallery shows, and the file of the t-th thumbnail (newest
\* first)
ShownFiles == {f \in disk : <<f.folder, f.name>> \in gallery}
ThumbFile(t) ==
    CHOOSE f \in ShownFiles :
        Cardinality({g \in ShownFiles : g.content > f.content}) = t - 1
ThumbExists(t) == t \in Thumbs /\ t <= Cardinality(ShownFiles)

\* The overlay windows of thumbnail t that exist
OverlaysOf(t) ==
    {w \in toplevels : overlay_thumb[w].thumb = t /\ ~overlay_thumb[w].gone}

\* Faulty variant: a new overlay is made whatever overlay_window holds.
show_overlay_Always(t) ==
    LET w == Len(overlay_thumb) + 1
    IN /\ hide_timers' = [hide_timers EXCEPT ![t] = IF hover[t].hide_timer
                                                    THEN @ - 1 ELSE @]
       /\ w <= MaxOverlays
       /\ hover' = [hover EXCEPT ![t] = [overlay_window |-> w,
                                         hide_timer |-> FALSE]]
       /\ toplevels' = toplevels \cup {w}
       /\ floating_windows' = Append(floating_windows, w)
       /\ overlay_thumb' = Append(overlay_thumb, [thumb |-> t, path |-> ThumbFile(t), gone |-> FALSE])

\* create_hover_handlers(container, path).show_overlay
show_overlay(t) ==
    /\ hide_timers' = [hide_timers EXCEPT ![t] = IF hover[t].hide_timer
                                                 THEN @ - 1 ELSE @]
    /\ IF hover[t].overlay_window # 0
       THEN /\ hover' = [hover EXCEPT ![t].hide_timer = FALSE]
            /\ UNCHANGED <<floating_windows, toplevels, overlay_thumb>>
       ELSE LET w == Len(overlay_thumb) + 1
            IN /\ w <= MaxOverlays
               /\ hover' = [hover EXCEPT ![t] = [overlay_window |-> w,
                                                 hide_timer |-> FALSE]]
               /\ toplevels' = toplevels \cup {w}
               /\ floating_windows' = Append(floating_windows, w)
               /\ overlay_thumb' = Append(overlay_thumb,
                                          [thumb |-> t, path |-> ThumbFile(t), gone |-> FALSE])

\* create_hover_handlers(container, path).cancel_hide
cancel_hide(t) ==
    /\ hide_timers' = [hide_timers EXCEPT ![t] = IF hover[t].hide_timer
                                                 THEN @ - 1 ELSE @]
    /\ hover' = [hover EXCEPT ![t].hide_timer = FALSE]
    /\ UNCHANGED <<floating_windows, toplevels, overlay_thumb>>

\* create_hover_handlers(container, path).schedule_hide: the timer hide_timer
\* named before stays pending
schedule_hide(t) ==
    /\ hide_timers[t] < MaxTimers
    /\ hide_timers' = [hide_timers EXCEPT ![t] = @ + 1]
    /\ hover' = [hover EXCEPT ![t].hide_timer = TRUE]
    /\ UNCHANGED <<floating_windows, toplevels, overlay_thumb>>

\* The Leave of the container and the Enter of the overlay, as the pointer
\* goes from the thumbnail onto its overlay: schedule_hide, then cancel_hide
schedule_then_cancel(t) ==
    /\ hide_timers[t] < MaxTimers
    /\ hide_timers' = hide_timers
    /\ hover' = [hover EXCEPT ![t].hide_timer = FALSE]
    /\ UNCHANGED <<floating_windows, toplevels, overlay_thumb>>

\* create_hover_handlers(container, path).hide_overlay_now: fired is the timer
\* that calls it ("own": the one hide_timer names, "lost": an earlier one,
\* "none": called by a button of the overlay)
hide_overlay_now(t, fired) ==
    LET w == hover[t].overlay_window
        cancelled == IF hover[t].hide_timer /\ fired # "own" THEN 1 ELSE 0
    IN /\ hide_timers' = [hide_timers EXCEPT
                              ![t] = @ - (IF fired = "none" THEN 0 ELSE 1)
                                       - cancelled]
       /\ hover' = [hover EXCEPT ![t] = NoHover]
       /\ floating_windows' = SelectSeq(floating_windows, LAMBDA x : x # w)
       /\ toplevels' = toplevels \ {w}
       /\ UNCHANGED overlay_thumb

\* The handlers of a thumbnail that refresh_gallery has destroyed, called by a
\* button of the overlay w they left behind
hide_overlay_now_gone(w) ==
    /\ floating_windows' = SelectSeq(floating_windows, LAMBDA x : x # w)
    /\ toplevels' = toplevels \ {w}
    /\ UNCHANGED <<hover, hide_timers, overlay_thumb>>

\* refresh_gallery destroys the thumbnails and makes new ones: the timers of
\* the old containers go with them, their overlays stay
NewThumbnails ==
    /\ hover' = [t \in Thumbs |-> NoHover]
    /\ hide_timers' = [t \in Thumbs |-> 0]
    /\ overlay_thumb' = [w \in 1..Len(overlay_thumb) |->
                            [overlay_thumb[w] EXCEPT !.gone = TRUE]]


(***************************************************************************)
(* Specifications.                                                         *)
(***************************************************************************)
\* The capture flows of ScreenshotTool.
Init ==
    /\ InitCapture /\ RegionClosed /\ WindowClosed /\ EditorClosed /\ InitStore /\ InitPaste
    /\ InitHotkeys /\ NoCountdown /\ InitWidgets /\ NoDrag /\ NoOverlay

Next ==
    \/ start_region_capture_threadsafe /\ UNCHANGED <<rsVars, wsVars, edVars, stVars, psVars, hkVars, cdVars, fbVars, dgVars, hvVars>>
    \/ capture_fullscreen_threadsafe /\ UNCHANGED <<rsVars, wsVars, edVars, stVars, psVars, hkVars, cdVars, fbVars, dgVars, hvVars>>
    \/ start_window_capture_threadsafe /\ UNCHANGED <<rsVars, wsVars, edVars, stVars, psVars, hkVars, cdVars, fbVars, dgVars, hvVars>>
    \/ AfterStart /\ UNCHANGED <<rsVars, wsVars, edVars, stVars, psVars, hkVars, cdVars, fbVars, dgVars, hvVars>>
    \/ SidebarButton /\ UNCHANGED <<rsVars, wsVars, edVars, stVars, psVars, hkVars, cdVars, fbVars, dgVars, hvVars>>
    \/ do_capture /\ UNCHANGED <<rsVars, wsVars, edVars, stVars, psVars, hkVars, cdVars, fbVars, dgVars, hvVars>>
    \/ CountdownInit /\ UNCHANGED <<rsVars, wsVars, edVars, StoreIdle, psVars, hkVars, cdVars, fbVars, dgVars, hvVars>>
    \/ CountdownTick /\ UNCHANGED <<rsVars, wsVars, edVars, StoreIdle, psVars, hkVars, cdVars, fbVars, dgVars, hvVars>>
    \/ CountdownCancel /\ UNCHANGED <<rsVars, wsVars, edVars, stVars, psVars, hkVars, cdVars, fbVars, dgVars, hvVars>>
    \/ ShowSelector /\ UNCHANGED <<rsVars, wsVars, edVars, StoreIdle, psVars, hkVars, cdVars, fbVars, dgVars, hvVars>>
    \/ DoFullscreenCapture /\ UNCHANGED <<rsVars, wsVars, edVars, StoreIdle, psVars, hkVars, cdVars, fbVars, dgVars, hvVars>>
    \/ SelectorDone /\ UNCHANGED <<rsVars, wsVars, edVars, StoreIdle, psVars, hkVars, cdVars, fbVars, dgVars, hvVars>>
    \/ on_editor_complete /\ UNCHANGED <<rsVars, wsVars, edVars, stVars, psVars, hkVars, cdVars, fbVars, dgVars, hvVars>>
    \/ SetDelay /\ UNCHANGED <<rsVars, wsVars, edVars, stVars, psVars, hkVars, cdVars, fbVars, dgVars, hvVars>>
    \/ ToggleEdit /\ UNCHANGED <<rsVars, wsVars, edVars, stVars, psVars, hkVars, cdVars, fbVars, dgVars, hvVars>>
    \/ ToggleSilent /\ UNCHANGED <<rsVars, wsVars, edVars, stVars, psVars, hkVars, cdVars, fbVars, dgVars, hvVars>>
    \/ ClockTick /\ UNCHANGED <<rsVars, wsVars, edVars, stVars, psVars, hkVars, cdVars, fbVars, dgVars, hvVars>>

Spec == Init /\ [][Next]_vars

\* The capture flows under the scheduling of the Tk main loop: a timer set
\* with root.after fires, a countdown ticks every second, and the user ends
\* an open selector or editor.  Cancelling a countdown stays a choice.
FlowStep ==
    \/ AfterStart /\ UNCHANGED <<rsVars, wsVars, edVars, stVars, psVars, hkVars, cdVars, fbVars, dgVars, hvVars>>
    \/ CountdownInit /\ UNCHANGED <<rsVars, wsVars, edVars, StoreIdle, psVars, hkVars, cdVars, fbVars, dgVars, hvVars>>
    \/ CountdownTick /\ UNCHANGED <<rsVars, wsVars, edVars, StoreIdle, psVars, hkVars, cdVars, fbVars, dgVars, hvVars>>
    \/ ShowSelector /\ UNCHANGED <<rsVars, wsVars, edVars, StoreIdle, psVars, hkVars, cdVars, fbVars, dgVars, hvVars>>
    \/ DoFullscreenCapture /\ UNCHANGED <<rsVars, wsVars, edVars, StoreIdle, psVars, hkVars, cdVars, fbVars, dgVars, hvVars>>
    \/ SelectorDone /\ UNCHANGED <<rsVars, wsVars, edVars, StoreIdle, psVars, hkVars, cdVars, fbVars, dgVars, hvVars>>
    \/ on_editor_complete /\ UNCHANGED <<rsVars, wsVars, edVars, stVars, psVars, hkVars, cdVars, fbVars, dgVars, hvVars>>

SpecFair == Init /\ [][Next]_vars /\ WF_vars(FlowStep)

\* One RegionSelector overlay and the pointer and key events it receives.
RsPress == \E x \in Coords, y \in Coords : RegionSelector_on_press(x, y)
RsDrag == \E x \in Coords, y \in Coords : RegionSelector_on_drag(x, y)
RsRelease == \E x \in Coords, y \in Coords : RegionSelector_on_release(x, y)
RsEscape == RegionSelector_on_cancel

NextRegion ==
    \/ RsPress /\ UNCHANGED <<capVars, wsVars, edVars, stVars, psVars, hkVars, cdVars, fbVars, dgVars, hvVars>>
    \/ RsDrag /\ UNCHANGED <<capVars, wsVars, edVars, stVars, psVars, hkVars, cdVars, fbVars, dgVars, hvVars>>
    \/ RsRelease /\ UNCHANGED <<capVars, wsVars, edVars, stVars, psVars, hkVars, cdVars, fbVars, dgVars, hvVars>>
    \/ RsEscape /\ UNCHANGED <<capVars, wsVars, edVars, stVars, psVars, hkVars, cdVars, fbVars, dgVars, hvVars>>

RegionInit ==
    /\ InitCapture /\ InitRegion /\ WindowClosed /\ EditorClosed /\ InitStore /\ InitPaste
    /\ InitHotkeys /\ NoCountdown /\ InitWidgets /\ NoDrag /\ NoOverlay

SpecRegion == RegionInit /\ [][NextRegion]_vars

\* One WindowSelector overlay and the click and key events it receives.
WsClick == \E p \in Points : WindowSelector_on_click(p)
WsEscape == WindowSelector_on_cancel

NextWindow ==
    \/ WsClick /\ UNCHANGED <<capVars, rsVars, edVars, stVars, psVars, hkVars, cdVars, fbVars, dgVars, hvVars, window_at, root_of>>
    \/ WsEscape /\ UNCHANGED <<capVars, rsVars, edVars, stVars, psVars, hkVars, cdVars, fbVars, dgVars, hvVars, window_at, root_of>>

WindowInit ==
    /\ InitCapture /\ RegionClosed /\ InitWindow /\ EditorClosed /\ InitStore /\ InitPaste
    /\ InitHotkeys /\ NoCountdown /\ InitWidgets /\ NoDrag /\ NoOverlay

SpecWindow == WindowInit /\ [][NextWindow]_vars

\* One ScreenshotEditor window and the events it receives.
EdPress ==
    \E event \in Canvas, text \in Texts :
        ScreenshotEditor_on_press(event[1], event[2], text)
EdDrag == \E event \in Canvas : ScreenshotEditor_on_drag(event[1], event[2])
EdRelease ==
    \E event \in Canvas : ScreenshotEditor_on_release(event[1], event[2])
EdMode == \E mode \in DrawModes : select_mode(mode)
EdColor == \E color_name \in ColorNames : select_color(color_name)

NextEditor ==
    \/ EdPress /\ UNCHANGED <<capVars, rsVars, wsVars, stVars, psVars, hkVars, cdVars, fbVars, dgVars, hvVars>>
    \/ EdDrag /\ UNCHANGED <<capVars, rsVars, wsVars, stVars, psVars, hkVars, cdVars, fbVars, dgVars, hvVars>>
    \/ EdRelease /\ UNCHANGED <<capVars, rsVars, wsVars, stVars, psVars, hkVars, cdVars, fbVars, dgVars, hvVars>>
    \/ EdMode /\ UNCHANGED <<capVars, rsVars, wsVars, stVars, psVars, hkVars, cdVars, fbVars, dgVars, hvVars>>
    \/ EdColor /\ UNCHANGED <<capVars, rsVars, wsVars, stVars, psVars, hkVars, cdVars, fbVars, dgVars, hvVars>>
    \/ toggle_lock /\ UNCHANGED <<capVars, rsVars, wsVars, stVars, psVars, hkVars, cdVars, fbVars, dgVars, hvVars>>
    \/ ScreenshotEditor_save /\ UNCHANGED <<capVars, rsVars, wsVars, stVars, psVars, hkVars, cdVars, fbVars, dgVars, hvVars>>
    \/ ScreenshotEditor_cancel /\ UNCHANGED <<capVars, rsVars, wsVars, stVars, psVars, hkVars, cdVars, fbVars, dgVars, hvVars>>

EditorInit ==
    /\ InitCapture /\ RegionClosed /\ WindowClosed /\ InitEditor /\ InitStore /\ InitPaste
    /\ InitHotkeys /\ NoCountdown /\ InitWidgets /\ NoDrag /\ NoOverlay

SpecEditor == EditorInit /\ [][NextEditor]_vars

\* Saving: screenshots saved into the save directory and its subfolder.
Capture == <<capture_in_progress, Settings, iconified, flows>>

StSave ==
    \E outcome \in ClipboardOutcomes :
        /\ screenshot_count < MaxSaves
        /\ SaveAndCopy(screenshot_count + 1, outcome)
        /\ UNCHANGED <<Capture, now>>
StEditor ==
    \E edited_image \in {NoInt, screenshot_count + 1}, outcome \in ClipboardOutcomes :
        /\ screenshot_count < MaxSaves
        /\ OnEditorComplete(edited_image, outcome)
        /\ UNCHANGED <<Capture, now>>
StSelect == \E f \in {""} \cup folder_bar : select_folder(f)

NextSave ==
    \/ StSave /\ UNCHANGED <<rsVars, wsVars, edVars, psVars, hkVars, cdVars, fbVars, dgVars, hvVars>>
    \/ StEditor /\ UNCHANGED <<rsVars, wsVars, edVars, psVars, hkVars, cdVars, fbVars, dgVars, hvVars>>
    \/ StSelect /\ UNCHANGED <<capVars, rsVars, wsVars, edVars, psVars, hkVars, cdVars, dgVars, hvVars>>
    \/ ToggleAutoSend /\ UNCHANGED <<capVars, rsVars, wsVars, edVars, psVars, hkVars, cdVars, fbVars, dgVars, hvVars>>
    \/ ClockTick /\ UNCHANGED <<rsVars, wsVars, edVars, stVars, psVars, hkVars, cdVars, fbVars, dgVars, hvVars>>

SaveInit ==
    /\ InitCapture /\ RegionClosed /\ WindowClosed /\ EditorClosed
    /\ InitSaveDir
    /\ InitPaste
    /\ InitHotkeys /\ NoCountdown /\ InitWidgets /\ NoDrag /\ NoOverlay
    /\ disk = {}

SpecSave == SaveInit /\ [][NextSave]_vars

\* The disk quota: saves, refreshes, the cleanup prompt and cleanups, in a
\* session without auto-send.
QtSave ==
    /\ screenshot_count < MaxSaves
    /\ SaveAndCopy(screenshot_count + 1, "ok")
    /\ UNCHANGED <<Capture, now>>
QtPrompt ==
    \E result \in BOOLEAN, unlinked \in SUBSET RootFiles(disk), raised \in BOOLEAN :
        prompt_cleanup(result, unlinked, raised)
QtCleanup ==
    \E result \in BOOLEAN, unlinked \in SUBSET RootFiles(disk), raised \in BOOLEAN :
        manual_cleanup(result, unlinked, raised)
QtLimit == \E limit \in DiskLimits : on_limit_change(limit)

NextQuota ==
    \/ QtSave /\ UNCHANGED <<rsVars, wsVars, edVars, psVars, hkVars, cdVars, fbVars, dgVars, hvVars>>
    \/ StSelect /\ UNCHANGED <<capVars, rsVars, wsVars, edVars, psVars, hkVars, cdVars, dgVars, hvVars>>
    \/ QtPrompt /\ UNCHANGED <<capVars, rsVars, wsVars, edVars, psVars, hkVars, cdVars, fbVars, dgVars, hvVars>>
    \/ QtCleanup /\ UNCHANGED <<capVars, rsVars, wsVars, edVars, psVars, hkVars, cdVars, fbVars, dgVars, hvVars>>
    \/ QtLimit /\ UNCHANGED <<capVars, rsVars, wsVars, edVars, psVars, hkVars, cdVars, fbVars, dgVars, hvVars>>
    \/ ClockTick /\ UNCHANGED <<rsVars, wsVars, edVars, stVars, psVars, hkVars, cdVars, fbVars, dgVars, hvVars>>

QuotaInit ==
    /\ InitCapture /\ RegionClosed /\ WindowClosed /\ EditorClosed
    /\ InitSaveDir
    /\ InitPaste
    /\ InitHotkeys /\ NoCountdown /\ InitWidgets /\ NoDrag /\ NoOverlay
    /\ ~auto_send_enabled
    /\ auto_send_target = ""

SpecQuota == QuotaInit /\ [][NextQuota]_vars

\* Pasting: images sent from the gallery and the paste timers they set.
PsSend ==
    \E f \in disk, target_name \in PushTargets, outcome \in {"ok", "open"} :
        /\ Len(pending) + Len(paste_results) < MaxPastes
        /\ send_to_target(f, target_name, outcome)

NextPaste ==
    \/ PsSend /\ UNCHANGED <<capVars, rsVars, wsVars, edVars, psVars, hkVars, cdVars, fbVars, dgVars, hvVars>>
    \/ PasteTimer /\ UNCHANGED <<capVars, rsVars, wsVars, edVars, hkVars, cdVars, fbVars, dgVars, hvVars>>

PasteInit ==
    /\ InitCapture /\ RegionClosed /\ WindowClosed /\ EditorClosed
    /\ InitSaveDir
    /\ disk = {OldFile(1)}
    /\ ~auto_send_enabled
    /\ auto_send_target = ""
    /\ InitDesktop
    /\ InitHotkeys /\ NoCountdown /\ InitWidgets /\ NoDrag /\ NoOverlay

SpecPaste == PasteInit /\ [][NextPaste]_vars

\* Auto-send: saves that schedule a paste, and the paste timers firing, with
\* the target's window on the desktop or not.
InitChat ==
    /\ windows \in {<<>>, <<[title |-> <<"A", "b">>, visible |-> TRUE]>>}
    /\ target = [name |-> "chat", title_pattern |-> <<"A">>, click_x |-> Nil,
                 click_y |-> Nil, offset_type |-> ""]
    /\ input_events = <<>>
    /\ paste_results = <<>>

NextAutoSend ==
    \/ StSave /\ UNCHANGED <<rsVars, wsVars, edVars, psVars, hkVars, cdVars, fbVars, dgVars, hvVars>>
    \/ PasteTimer /\ UNCHANGED <<capVars, rsVars, wsVars, edVars, hkVars, cdVars, fbVars, dgVars, hvVars>>
    \/ ToggleAutoSend /\ UNCHANGED <<capVars, rsVars, wsVars, edVars, psVars, hkVars, cdVars, fbVars, dgVars, hvVars>>
    \/ ClockTick /\ UNCHANGED <<rsVars, wsVars, edVars, stVars, psVars, hkVars, cdVars, fbVars, dgVars, hvVars>>

AutoSendInit ==
    /\ InitCapture /\ RegionClosed /\ WindowClosed /\ EditorClosed
    /\ InitSaveDir
    /\ disk = {}
    /\ InitChat
    /\ InitHotkeys /\ NoCountdown /\ InitWidgets /\ NoDrag /\ NoOverlay

SpecAutoSend == AutoSendInit /\ [][NextAutoSend]_vars

\* Folders: deleting, moving and renaming in the save directory.
FdDeleteScreenshot ==
    \E f \in disk, answer \in BOOLEAN, raises \in BOOLEAN :
        delete_screenshot(f, answer, raises)
FdMove ==
    \E f \in disk, folder_name \in {""} \cup folders, overwrite \in BOOLEAN,
       raises \in {"no", "mkdir", "move"} :
        move_to_folder(f, folder_name, overwrite, raises) /\ UNCHANGED folder_bar
FdRename ==
    \E old_name \in folders, typed \in NewNames, raises \in BOOLEAN :
        rename_folder(old_name, typed, raises)
FdDeleteFolder ==
    \E folder_name \in folders, result \in BOOLEAN, rmdir_raises \in BOOLEAN :
        \E images \in Orders({f \in disk : f.folder = folder_name}) :
            \E moved \in 0..Len(images) :
                /\ delete_folder(folder_name, result, images, moved, rmdir_raises)
                /\ \A f \in disk' : Len(f.name) <= Len(Filename(0)) + MaxMoved

NextFolders ==
    \/ FdDeleteScreenshot /\ UNCHANGED <<capVars, rsVars, wsVars, edVars, psVars, hkVars, cdVars, dgVars, hvVars>>
    \/ FdMove /\ UNCHANGED <<capVars, rsVars, wsVars, edVars, psVars, hkVars, cdVars, dgVars, hvVars>>
    \/ FdRename /\ UNCHANGED <<capVars, rsVars, wsVars, edVars, psVars, hkVars, cdVars, dgVars, hvVars>>
    \/ FdDeleteFolder /\ UNCHANGED <<capVars, rsVars, wsVars, edVars, psVars, hkVars, cdVars, dgVars, hvVars>>
    \/ StSelect /\ UNCHANGED <<capVars, rsVars, wsVars, edVars, psVars, hkVars, cdVars, dgVars, hvVars>>

FoldersInit ==
    /\ InitCapture /\ RegionClosed /\ WindowClosed /\ EditorClosed
    /\ InitFolders
    /\ InitPaste
    /\ InitHotkeys /\ NoCountdown /\ InitWidgets /\ NoDrag /\ NoOverlay

SpecFolders == FoldersInit /\ [][NextFolders]_vars

\* The folder bar: folders created, selected, renamed and deleted, and the
\* save directory changed.  A button of the bar is clicked while its folder
\* exists.
FbCreate == \E typed \in NewNames, raises \in BOOLEAN : create_new_folder(typed, raises)
FbSelect == \E f \in {""} \cup (folder_bar \cap folders) : select_folder(f)
FbRename ==
    \E old_name \in folder_bar \cap folders, typed \in NewNames, raises \in BOOLEAN :
        rename_folder(old_name, typed, raises)
FbDelete ==
    \E folder_name \in folder_bar \cap folders, result \in BOOLEAN,
       rmdir_raises \in BOOLEAN :
        \E images \in Orders({f \in disk : f.folder = folder_name}) :
            delete_folder(folder_name, result, images, Len(images), rmdir_raises)
FbChangeDir == \E new_dir \in {Nil} \cup Directories : change_save_dir(new_dir)

NextFolderBar ==
    \/ FbCreate /\ UNCHANGED <<capVars, rsVars, wsVars, edVars, psVars, hkVars, cdVars, dgVars, hvVars>>
    \/ FbSelect /\ UNCHANGED <<capVars, rsVars, wsVars, edVars, psVars, hkVars, cdVars, dgVars, hvVars>>
    \/ FbRename /\ UNCHANGED <<capVars, rsVars, wsVars, edVars, psVars, hkVars, cdVars, dgVars, hvVars>>
    \/ FbDelete /\ UNCHANGED <<capVars, rsVars, wsVars, edVars, psVars, hkVars, cdVars, dgVars, hvVars>>
    \/ FbChangeDir /\ UNCHANGED <<capVars, rsVars, wsVars, edVars, psVars, hkVars, cdVars, dgVars, hvVars>>

FolderBarInit ==
    /\ InitCapture /\ RegionClosed /\ WindowClosed /\ EditorClosed
    /\ InitFolders
    /\ InitPaste
    /\ InitHotkeys /\ NoCountdown /\ InitWidgets /\ NoDrag /\ NoOverlay

SpecFolderBar == FolderBarInit /\ [][NextFolderBar]_vars

\* Countdowns: the windows of DelayCountdown, their timers and their users.
CdNew == \E seconds \in CountdownSeconds : DelayCountdown_init(seconds)
CdTimer == \E i \in 1..Len(countdowns) : TimerFires(i)
CdCancel == \E i \in 1..Len(countdowns) : DelayCountdown_cancel(i)

NextCountdown ==
    \/ CdNew /\ UNCHANGED <<capVars, rsVars, wsVars, edVars, stVars, psVars, hkVars, fbVars, dgVars, hvVars>>
    \/ CdTimer /\ UNCHANGED <<capVars, rsVars, wsVars, edVars, stVars, psVars, hkVars, fbVars, dgVars, hvVars>>
    \/ CdCancel /\ UNCHANGED <<capVars, rsVars, wsVars, edVars, stVars, psVars, hkVars, fbVars, dgVars, hvVars>>

CountdownInit0 ==
    /\ InitCapture /\ RegionClosed /\ WindowClosed /\ EditorClosed
    /\ InitStore /\ InitPaste
    /\ InitHotkeys /\ NoCountdown /\ InitWidgets /\ NoDrag /\ NoOverlay

SpecCountdown == CountdownInit0 /\ [][NextCountdown]_vars

\* Hotkeys: registration at start-up, the temporary hotkey of the position
\* capture, and the closing of the main window.
HkCapture == capture_target_position
HkPress == \E outcome \in {"ok", "win32"} : on_capture(outcome)
HkClose ==
    \E raises_at \in 0..Len(CaptureChords) :
        on_close(raises_at) /\ cleanup_floating_windows

HkFrame ==
    UNCHANGED <<capture_in_progress, screenshot_count, Settings, flows, files,
                now, rsVars, wsVars, edVars, StoreQuiet, psVars, cdVars, fbVars>>

\* What cleanup_floating_windows leaves alone
DragIdle == <<held, drag_started, start_pos, drag_filepath, opened, strayed>>
HoverIdle == <<hover, hide_timers, overlay_thumb, pointer>>

NextHotkeys ==
    \/ HkCapture /\ HkFrame /\ UNCHANGED <<dgVars, hvVars>>
    \/ HkPress /\ HkFrame /\ UNCHANGED <<dgVars, hvVars>>
    \/ finish_target_registration /\ HkFrame /\ UNCHANGED <<dgVars, hvVars>>
    \/ HkClose /\ HkFrame /\ UNCHANGED <<DragIdle, HoverIdle>>

HotkeysInit ==
    /\ InitCapture /\ RegionClosed /\ WindowClosed /\ EditorClosed
    /\ InitStore /\ InitPaste
    /\ \E raises_at \in 0..Len(CaptureChords) : register_hotkeys(raises_at)
    /\ closed = FALSE
    /\ registrations = 0
    /\ NoCountdown /\ InitWidgets /\ NoDrag /\ NoOverlay

SpecHotkeys == HotkeysInit /\ [][NextHotkeys]_vars

\* Dragging: a thumbnail of the gallery pressed, the pointer moved and the
\* button released, folders selected between two gestures, and the periodic
\* cleanup.
Far(p, q) ==
    \E d \in {p[1] - q[1], q[1] - p[1], p[2] - q[2], q[2] - p[2]} :
        d > DragThreshold

DgPress ==
    \E f \in disk, event \in PressPoints :
        /\ held = Nil
        /\ <<f.folder, f.name>> \in gallery
        /\ Len(opened) < MaxOpens
        /\ on_press(f, event)
        /\ strayed' = FALSE
        /\ UNCHANGED <<stVars, fbVars, hvVars>>
DgMotion ==
    \E event \in DragPoints, raises \in BOOLEAN :
        /\ held # Nil
        /\ on_motion(event, raises)
        /\ strayed' = (strayed \/ Far(event, start_pos))
        /\ UNCHANGED <<stVars, fbVars, hvVars>>
DgRelease ==
    \E event \in DragPoints, overwrite \in BOOLEAN,
       raises \in {"no", "mkdir", "move"}, fails \in BOOLEAN :
        /\ held # Nil
        /\ on_release(event, overwrite, raises, fails)
        /\ UNCHANGED <<strayed, hvVars>>
DgSelect == held = Nil /\ StSelect /\ UNCHANGED <<dgVars, hvVars>>
DgCleanup ==
    /\ schedule_cleanup
    /\ UNCHANGED <<stVars, fbVars, DragIdle, HoverIdle>>

NextDrag ==
    \/ DgPress /\ UNCHANGED <<capVars, rsVars, wsVars, edVars, psVars, hkVars, cdVars>>
    \/ DgMotion /\ UNCHANGED <<capVars, rsVars, wsVars, edVars, psVars, hkVars, cdVars>>
    \/ DgRelease /\ UNCHANGED <<capVars, rsVars, wsVars, edVars, psVars, hkVars, cdVars>>
    \/ DgSelect /\ UNCHANGED <<capVars, rsVars, wsVars, edVars, psVars, hkVars, cdVars>>
    \/ DgCleanup /\ UNCHANGED <<capVars, rsVars, wsVars, edVars, psVars, hkVars, cdVars>>

DragInit ==
    /\ InitCapture /\ RegionClosed /\ WindowClosed /\ EditorClosed
    /\ InitFolders
    /\ InitPaste
    /\ InitHotkeys /\ NoCountdown /\ InitWidgets /\ NoDrag /\ NoOverlay

SpecDrag == DragInit /\ [][NextDrag]_vars

\* Hovering: the pointer moving over the thumbnails and their overlays, the
\* hide timers, the Open and Delete buttons of an overlay, and the periodic
\* cleanup.
OnThumb(t) == <<"thumb", t>>
OnOverlay(w) == <<"overlay", w>>

\* The thumbnail under an overlay window, if there is one
Beneath(w) ==
    IF ThumbExists(overlay_thumb[w].thumb) THEN OnThumb(overlay_thumb[w].thumb)
    ELSE Away

\* The pointer comes onto a thumbnail from elsewhere
HvEnter ==
    \E t \in Thumbs :
        /\ ThumbExists(t)
        /\ pointer = Away
        /\ pointer' = OnThumb(t)
        /\ show_overlay(t)
        /\ UNCHANGED <<stVars, fbVars, dgVars>>
\* The pointer leaves a thumbnail, for elsewhere
HvLeave ==
    \E t \in Thumbs :
        /\ pointer = OnThumb(t)
        /\ pointer' = Away
        /\ schedule_hide(t)
        /\ UNCHANGED <<stVars, fbVars, dgVars>>
\* The pointer goes from a thumbnail onto its overlay
HvOntoOverlay ==
    \E t \in Thumbs :
        /\ pointer = OnThumb(t)
        /\ hover[t].overlay_window \in OverlaysOf(t)
        /\ pointer' = OnOverlay(hover[t].overlay_window)
        /\ schedule_then_cancel(t)
        /\ UNCHANGED <<stVars, fbVars, dgVars>>
\* The pointer leaves an overlay, for elsewhere
HvOffOverlay ==
    \E w \in toplevels :
        /\ pointer = OnOverlay(w)
        /\ pointer' = Away
        /\ IF overlay_thumb[w].gone
           THEN UNCHANGED <<hover, hide_timers, floating_windows, toplevels,
                            overlay_thumb>>
           ELSE schedule_hide(overlay_thumb[w].thumb)
        /\ UNCHANGED <<stVars, fbVars, dgVars>>
\* The overlay under the pointer is gone: the pointer is over what was beneath
HvLand ==
    \E w \in 1..Len(overlay_thumb) :
        /\ pointer = OnOverlay(w)
        /\ w \notin toplevels
        /\ pointer' = Beneath(w)
        /\ IF Beneath(w) = Away
           THEN UNCHANGED <<hover, hide_timers, floating_windows, toplevels,
                            overlay_thumb>>
           ELSE show_overlay(overlay_thumb[w].thumb)
        /\ UNCHANGED <<stVars, fbVars, dgVars>>
\* A hide timer of a thumbnail fires
HvTimer ==
    \E t \in Thumbs, fired \in {"own", "lost"} :
        /\ IF fired = "own" THEN hover[t].hide_timer
           ELSE hide_timers[t] > (IF hover[t].hide_timer THEN 1 ELSE 0)
        /\ hide_overlay_now(t, fired)
        /\ UNCHANGED <<pointer, stVars, fbVars, dgVars>>
\* The Open button of the overlay under the pointer
HvOpen ==
    \E w \in toplevels, fails \in BOOLEAN :
        /\ pointer = OnOverlay(w)
        /\ Len(opened) < MaxOpens
        /\ overlay_thumb[w].path \notin disk => fails
        /\ IF overlay_thumb[w].gone THEN hide_overlay_now_gone(w)
           ELSE hide_overlay_now(overlay_thumb[w].thumb, "none")
        /\ open_image(overlay_thumb[w].path, fails)
        /\ UNCHANGED <<pointer, fbVars, held, drag_started, start_pos,
                       drag_filepath, drag_label, strayed>>
\* The Delete button of the overlay under the pointer
HvDelete ==
    \E w \in toplevels, answer \in BOOLEAN, raises \in BOOLEAN :
        /\ pointer = OnOverlay(w)
        /\ delete_screenshot(overlay_thumb[w].path, answer, raises)
        /\ IF answer /\ ~raises
           THEN /\ NewThumbnails
                /\ floating_windows' = SelectSeq(floating_windows, LAMBDA x : x # w)
                /\ toplevels' = toplevels \ {w}
           ELSE IF overlay_thumb[w].gone THEN hide_overlay_now_gone(w)
           ELSE hide_overlay_now(overlay_thumb[w].thumb, "none")
        /\ UNCHANGED <<pointer, dgVars>>
HvCleanup ==
    /\ schedule_cleanup
    /\ UNCHANGED <<stVars, fbVars, DragIdle, HoverIdle>>

NextHover ==
    \/ HvEnter /\ UNCHANGED <<capVars, rsVars, wsVars, edVars, psVars, hkVars, cdVars>>
    \/ HvLeave /\ UNCHANGED <<capVars, rsVars, wsVars, edVars, psVars, hkVars, cdVars>>
    \/ HvOntoOverlay /\ UNCHANGED <<capVars, rsVars, wsVars, edVars, psVars, hkVars, cdVars>>
    \/ HvOffOverlay /\ UNCHANGED <<capVars, rsVars, wsVars, edVars, psVars, hkVars, cdVars>>
    \/ HvLand /\ UNCHANGED <<capVars, rsVars, wsVars, edVars, psVars, hkVars, cdVars>>
    \/ HvTimer /\ UNCHANGED <<capVars, rsVars, wsVars, edVars, psVars, hkVars, cdVars>>
    \/ HvOpen /\ UNCHANGED <<capVars, rsVars, wsVars, edVars, psVars, hkVars, cdVars>>
    \/ HvDelete /\ UNCHANGED <<capVars, rsVars, wsVars, edVars, psVars, hkVars, cdVars>>
    \/ HvCleanup /\ UNCHANGED <<capVars, rsVars, wsVars, edVars, psVars, hkVars, cdVars>>

HoverInit ==
    /\ InitCapture /\ RegionClosed /\ WindowClosed /\ EditorClosed
    /\ InitFolders
    /\ Cardinality(disk) \in Thumbs
    /\ InitPaste
    /\ InitHotkeys /\ NoCountdown /\ InitWidgets /\ NoDrag /\ NoOverlay

SpecHover == HoverInit /\ [][NextHover]_vars

\* Hovering under the scheduling of the Tk main loop: the cleanup that
\* schedule_cleanup re-arms every 5 seconds runs again and again.
PeriodicCleanup ==
    HvCleanup /\ UNCHANGED <<capVars, rsVars, wsVars, edVars, psVars, hkVars, cdVars>>

SpecHoverFair == HoverInit /\ [][NextHover]_vars /\ WF_vars(PeriodicCleanup)

(***************************************************************************)
(* Claims.                                                                 *)
(***************************************************************************)
NumInFlight == BagCardinality([fl \in InFlight |-> flows[fl]])

\* C1: No capture flow is started while another capture flow is still in
\* flight, for any interleaving of the capture hotkeys and capture buttons:
\* at most one flow is in flight at any time.
C1_NoOverlappingFlows == NumInFlight <= 1

\* C2: A capture hotkey pressed while _capture_in_progress is true changes
\* no state; pressed while it is false it sets the guard and queues exactly
\* one capture start.  Either way the guard is true after the press, so a
\* second press before the UI loop runs queues nothing.
C2_HotkeyGuard ==
    [][\A mode \in CaptureModes :
          HotkeyPress(mode) =>
              /\ ~capture_in_progress
              /\ capture_in_progress'
              /\ flows' = flows (+) One(NewFlow("hotkey", mode))
              /\ UNCHANGED <<screenshot_count, Settings, iconified, files, now>>
      ]_vars

C2_Witness ==
    /\ capture_in_progress
    /\ \E fl \in FlowSet : fl.origin = "hotkey" /\ fl.pc = "after_start"
    /\ ENABLED start_region_capture_threadsafe

\* C3: For every hotkey-initiated flow the guard is reset exactly once, and
\* not before the flow has made its capture or been cancelled: a finished
\* flow has reset the guard once, and a flow still waiting on its start,
\* countdown, selector or grab has not reset it.
PreCapture ==
    {"after_start", "after_countdown", "countdown", "after_selector",
     "selector", "after_grab"}

C3_ResetOnceAtTerminal ==
    \A fl \in FlowSet :
        fl.origin = "hotkey" =>
            /\ fl.pc = "done" => fl.resets = 1
            /\ fl.pc \in PreCapture => fl.resets = 0

\* A full-screen capture with edit-before-save off whose grab succeeds.
FullscreenSaveStep(fl) ==
    /\ fl.pc = "after_grab"
    /\ ~edit_before_save
    /\ _do_fullscreen_capture(fl, TRUE)

\* What such a capture does in every case: it writes the PNG named by the
\* current second, which is one new file unless a file of that name is
\* already there, leaves the guard false and adds 1 to the session counter.
FullscreenSaveWrites ==
    [][\A fl \in FlowSet :
          FullscreenSaveStep(fl) =>
              /\ ~capture_in_progress'
              /\ screenshot_count' = screenshot_count + 1
              /\ files \subseteq files'
              /\ Filename(now) \in files'
              /\ Cardinality(files' \ files) =
                     IF Filename(now) \in files THEN 0 ELSE 1
      ]_vars

\* C4: starting with the guard false, delay 0 and edit-before-save off, a
\* full-screen capture whose grab succeeds writes exactly one new PNG file,
\* leaves the guard false and increases the session counter by exactly 1.
C4_ExactlyOneNewFile ==
    [][\A fl \in FlowSet :
          (delay_var = 0 /\ NumInFlight = 1 /\ FullscreenSaveStep(fl)) =>
              /\ ~capture_in_progress'
              /\ screenshot_count' = screenshot_count + 1
              /\ Cardinality(files' \ files) = 1
      ]_vars

LastCall(calls) == calls[Len(calls)]

\* C5: For any press point and release point, the region picker reports
\* cancellation when the rectangle's width or height is at most 10 px, and
\* reports the rectangle and its crop only when both exceed 10.
C5_SmallRegionCancels ==
    [][\A x \in Coords, y \in Coords :
          (start_x # NoInt /\ RegionSelector_on_release(x, y)) =>
              LET w == Abs(x - start_x)
                  h == Abs(y - start_y)
                  call == LastCall(rs_calls')
              IN /\ Len(rs_calls') = Len(rs_calls) + 1
                 /\ IF w <= 10 \/ h <= 10
                    THEN call.region = Nil /\ call.image = Nil
                    ELSE /\ call.region # Nil
                         /\ call.region[3] - call.region[1] = w
                         /\ call.region[4] - call.region[2] = h
                         /\ call.image = Crop(call.region)
      ]_vars

C5_Witness ==
    /\ Len(rs_calls) = 1
    /\ rs_calls[1].by = "release"
    /\ rs_calls[1].region = <<0, 0, RegionMin + 1, RegionMin + 1>>

\* C7: Escape on the region picker reports cancellation whatever the drag
\* state: every callback made by the Escape handler carries (None, None).
C7_EscapeCancels ==
    \A k \in 1..Len(rs_calls) :
        rs_calls[k].by = "escape" =>
            rs_calls[k].region = Nil /\ rs_calls[k].image = Nil

C7_Witness ==
    /\ Len(rs_calls) = 1
    /\ rs_calls[1].by = "escape"
    /\ rect # Nil
    /\ rect[3] - rect[1] > RegionMin
    /\ rect[4] - rect[2] > RegionMin

\* C6: In the window picker only the first click or Escape is honoured: the
\* callback is invoked at most once per overlay, exactly when handled is
\* set, and later events change nothing.
C6_CallbackOnce ==
    /\ Len(ws_calls) <= 1
    /\ handled <=> Len(ws_calls) = 1
    /\ handled <=> ~ws_open

C6_Witness ==
    /\ handled
    /\ Len(ws_calls) = 1
    /\ ENABLED WsClick
    /\ ENABLED WsEscape


(***************************************************************************)
(* ScreenshotEditor: circles and the horizontal lock.                     *)
(***************************************************************************)
\* A circle is being dragged out from a recorded centre.
CircleInProgress == drawing /\ draw_mode = "circle" /\ center_x # NoInt

RadiusX(p) == Abs(canvas_to_image_coords(p[1]) - center_x)
RadiusY(p) == Abs(canvas_to_image_coords(p[2]) - center_y)

Dragged(p) == ScreenshotEditor_on_drag(p[1], p[2])
Released(p) == ScreenshotEditor_on_release(p[1], p[2])

\* The bounding box of the only call of a layer's last drawing.
LastBox(layer) == layer.last[1].xy
IsCircle(layer) ==
    /\ layer.last # Nil
    /\ layer.last[1].op = "ellipse"
    /\ layer.last[1].outline # Nil

\* C8 as stated: in circle mode a shape with either radius at most 2 px is
\* discarded, so neither the preview (pointer move) nor the commit (pointer
\* release) draws anything into a layer for it.
C8_EitherRadiusDiscards ==
    [][\A p \in Canvas :
          (CircleInProgress /\ (RadiusX(p) <= 2 \/ RadiusY(p) <= 2))
              => /\ Dragged(p) => preview_layer' = EmptyLayer
                 /\ Released(p) => highlight_layer' = highlight_layer]_vars

\* C8 as the code has it: in circle mode a shape is discarded exactly when
\* both radii are at most 2 px.  Then the preview layer is left empty by a
\* pointer move and the annotation layer unchanged by a release; with
\* either radius above 2 the move draws the shape on the preview layer and
\* the release draws it on the annotation layer.
C8_BothRadiiDiscard ==
    [][\A p \in Canvas :
          CircleInProgress
              => LET small == RadiusX(p) <= 2 /\ RadiusY(p) <= 2
                 IN /\ Dragged(p)
                        => /\ small => preview_layer' = EmptyLayer
                           /\ ~small => /\ preview_layer'.n = 1
                                        /\ IsCircle(preview_layer')
                    /\ Released(p)
                        => /\ small => highlight_layer' = highlight_layer
                           /\ ~small => /\ highlight_layer'.n
                                              = highlight_layer.n + 1
                                        /\ IsCircle(highlight_layer')]_vars

\* A preview of a shape 3 px or more wide and at most 2 px high.
C8_Witness ==
    /\ drawing
    /\ draw_mode = "circle"
    /\ IsCircle(preview_layer)
    /\ LastBox(preview_layer)[3] - LastBox(preview_layer)[1] >= 6
    /\ LastBox(preview_layer)[4] - LastBox(preview_layer)[2] <= 4

\* C9: committing a circle with both radii at most 2 px leaves the
\* annotation layer unchanged, and the threshold is exact: radii (2, 2)
\* draw nothing, while a radius of 3 or more in at least one axis draws the
\* ellipse bounded by centre minus radii and centre plus radii.
C9_CommitThreshold ==
    [][\A p \in Canvas :
          (CircleInProgress /\ Released(p))
              => LET rx == RadiusX(p)
                     ry == RadiusY(p)
                 IN /\ (rx <= 2 /\ ry <= 2)
                        => highlight_layer' = highlight_layer
                    /\ (rx >= 3 \/ ry >= 3)
                        => /\ highlight_layer'.n = highlight_layer.n + 1
                           /\ Len(highlight_layer'.last) = 1
                           /\ IsCircle(highlight_layer')
                           /\ LastBox(highlight_layer')
                                 = <<center_x - rx, center_y - ry,
                                     center_x + rx, center_y + ry>>
                    /\ preview_layer' = EmptyLayer]_vars

\* A committed circle with a radius of exactly 3 in one axis and at most 2
\* in the other.
C9_Witness ==
    /\ ~drawing
    /\ IsCircle(highlight_layer)
    /\ LET b == LastBox(highlight_layer)
       IN \/ b[3] - b[1] = 6 /\ b[4] - b[2] <= 4
          \/ b[4] - b[2] = 6 /\ b[3] - b[1] <= 4

\* A highlight stroke whose every point so far was pinned to lock_y.
Pinned ==
    /\ drawing
    /\ horizontal_lock
    /\ lock_y # NoInt
    /\ last_x # NoInt
    /\ last_y = lock_y

\* The line segment of the last drawing on the annotation layer.
LastSegment == highlight_layer.last[1]

\* C10 as stated: in highlight mode, once a stroke has started with the
\* lock set (lock_y holds its y0), every segment drawn during the stroke
\* has both endpoints at y0, also when the checkbox is toggled between
\* pointer-down and pointer-up.
C10_LockPinsWholeStroke ==
    [][\A p \in Canvas :
          (/\ drawing
           /\ draw_mode = "highlight"
           /\ lock_y # NoInt
           /\ last_x # NoInt
           /\ Dragged(p))
              => /\ LastSegment'.op = "line"
                 /\ LastSegment'.xy[2] = lock_y
                 /\ LastSegment'.xy[4] = lock_y]_vars

\* C10 as the code has it: a pointer-down in highlight mode with the lock
\* set records its y as lock_y, and every drag made while the lock is still
\* set and all earlier points of the stroke were pinned draws a segment
\* with both endpoints at lock_y, whatever y the pointer reports, and
\* leaves the stroke pinned.
C10_LockPinsWhileSet ==
    [][\A p \in Canvas :
          /\ (/\ draw_mode = "highlight"
              /\ horizontal_lock
              /\ \E text \in Texts :
                    ScreenshotEditor_on_press(p[1], p[2], text))
                 => /\ lock_y' = canvas_to_image_coords(p[2])
                    /\ Pinned'
          /\ (Pinned /\ draw_mode = "highlight" /\ Dragged(p))
                 => /\ highlight_layer'.n = highlight_layer.n + 1
                    /\ LastSegment'.op = "line"
                    /\ LastSegment'.xy
                          = <<last_x, lock_y,
                              canvas_to_image_coords(p[1]), lock_y>>
                    /\ lock_y' = lock_y
                    /\ Pinned']_vars

\* A pinned stroke that has drawn a segment to another x.
C10_Witness ==
    /\ Pinned
    /\ draw_mode = "highlight"
    /\ highlight_layer.n = 2
    /\ LastSegment.op = "line"
    /\ LastSegment.xy[1] # LastSegment.xy[3]
    /\ LastSegment.xy[2] = lock_y
    /\ LastSegment.xy[4] = lock_y


(***************************************************************************)
(* ScreenshotEditor: preview and commit of a circle.                       *)
(***************************************************************************)
\* The ellipse the pointer position p asks for, or nothing when it is noise.
CircleAt(p) ==
    IF RadiusX(p) > 2 \/ RadiusY(p) > 2
    THEN <<Primitive("ellipse",
                     <<center_x - RadiusX(p), center_y - RadiusY(p),
                       center_x + RadiusX(p), center_y + RadiusY(p)>>,
                     Nil, COLORS[current_color], brush_size \div 2, "")>>
    ELSE Nil

\* C11: a circle in progress lives only in the preview layer, which every
\* pointer move rebuilds from empty (it never holds more than the one shape
\* of the last move) while the annotation layer stays as it is; the
\* annotation layer gets a circle only in a pointer release of a circle in
\* progress, which draws the shape the preview shows for that pointer
\* position and clears the preview layer.
C11_PreviewThenCommit ==
    [][/\ \A p \in Canvas :
            /\ (CircleInProgress /\ Dragged(p))
                  => /\ highlight_layer' = highlight_layer
                     /\ preview_layer' = IF CircleAt(p) = Nil THEN EmptyLayer
                                         ELSE Draw(EmptyLayer, CircleAt(p))
            /\ (CircleInProgress /\ Released(p))
                  => /\ preview_layer' = EmptyLayer
                     /\ highlight_layer' = IF CircleAt(p) = Nil
                                           THEN highlight_layer
                                           ELSE Draw(highlight_layer, CircleAt(p))
       /\ (highlight_layer' # highlight_layer /\ IsCircle(highlight_layer'))
             => /\ CircleInProgress
                /\ \E p \in Canvas : Released(p)
                /\ ~drawing'
      ]_vars

\* A circle that so far is on the preview layer only.
C11_Witness ==
    /\ CircleInProgress
    /\ IsCircle(preview_layer)
    /\ preview_layer.n = 1
    /\ highlight_layer = EmptyLayer
    /\ ENABLED EdRelease

\* C12: Save hands the callback the base image composited with the committed
\* annotation layer only, flattened to RGB, whatever the preview layer holds;
\* Cancel, Escape and closing the window hand it None.  Either way the editor
\* makes exactly that one call as it closes.
C12_SaveCommittedOnly ==
    [][/\ ScreenshotEditor_save
            => ed_calls' = Append(ed_calls,
                                  <<"RGB", IF highlight_layer = EmptyLayer
                                           THEN BaseImage
                                           ELSE <<"alpha_composite", BaseImage,
                                                  highlight_layer>> >>)
       /\ ScreenshotEditor_cancel => ed_calls' = Append(ed_calls, Nil)
       /\ ed_calls' # ed_calls => ed_open /\ ~ed_open' /\ Len(ed_calls') = Len(ed_calls) + 1
      ]_vars

\* A save is about to be made while a circle preview is still uncommitted.
C12_Witness ==
    /\ ed_open
    /\ preview_layer # EmptyLayer
    /\ IsCircle(preview_layer)
    /\ ENABLED ScreenshotEditor_save
    /\ ENABLED ScreenshotEditor_cancel

\* C20: rendering reads the base image and the committed annotation layer
\* without modifying either.  No step changes the base image; the annotation
\* layer changes only by one drawing at a time, made by a handler; whatever
\* update_display shows is the rendering of the layers as they are, so that
\* rendering them again shows the same; and what save hands over is the same
\* function of the base image and the annotation layer.
C20_RenderReadsOnly ==
    [][/\ image' = image
       /\ image = BaseImage
       /\ (ed_open' /\ highlight_layer' # highlight_layer)
             => highlight_layer'.n = highlight_layer.n + 1
       /\ (ed_open' /\ photo' # photo)
             => photo' = Display(BaseImage, highlight_layer', preview_layer')
       /\ (ed_open /\ ~ed_open' /\ LastCall(ed_calls') # Nil)
             => LastCall(ed_calls') = Composite(BaseImage, highlight_layer)
      ]_vars

\* The display has been rendered again and again over a growing annotation layer.
C20_Witness ==
    /\ ed_open
    /\ highlight_layer.n >= 2
    /\ image = BaseImage
    /\ photo = Display(BaseImage, highlight_layer, preview_layer)
    /\ photo # Display(BaseImage, EmptyLayer, EmptyLayer)
    /\ ENABLED ScreenshotEditor_save

(***************************************************************************)
(* ScreenshotTool: saving.                                                 *)
(***************************************************************************)
\* The files of the selected folder that bear the name of this second
SameSecond(d) ==
    {f \in d : f.folder = current_folder /\ f.name = <<"screenshot_", now, ".png">>}

\* C13: two saves into the same folder within the same clock second get the
\* same file name and are not disambiguated: every save leaves exactly one
\* file of the name of its second in its folder, holding the image just
\* saved; when an earlier save of that second had left one there, no file is
\* added and the earlier image is gone.
C13_SameSecondOverwrites ==
    [][screenshot_count' # screenshot_count
          => /\ Cardinality(SameSecond(disk')) = 1
             /\ \A f \in SameSecond(disk') : f.content = screenshot_count + 1
             /\ disk' \ SameSecond(disk') = disk \ SameSecond(disk)
             /\ SameSecond(disk) # {}
                   => /\ Cardinality(disk') = Cardinality(disk)
                      /\ \A f \in SameSecond(disk) : f.content < screenshot_count + 1
      ]_vars

\* Two saves were made and one file is there, holding the second image.
C13_Witness ==
    /\ screenshot_count = 2
    /\ Cardinality(disk) = 1
    /\ \A f \in disk : f.content = 2 /\ f.name = <<"screenshot_", now, ".png">>

C17_PromptOncePerSession == prompts_scheduled <= 1

\* C17, amended: the cleanup prompt is scheduled at most once for as long as
\* _cleanup_prompted stays set.  A step schedules at most one prompt, and only
\* with usage at 90% or more of the limit; with the flag set, a step that
\* deletes no file (a refresh, a save, an answer of No) schedules none.  Only
\* a cleanup that deleted files clears the flag, and the refresh it makes may
\* then schedule the next prompt.
C17_PromptOncePerFlag ==
    [][/\ prompts_scheduled' # prompts_scheduled
            => /\ prompts_scheduled' = prompts_scheduled + 1
               /\ prompt_timers' >= 1
               /\ cleanup_prompted'
               /\ Over90(disk')
               /\ ~cleanup_prompted \/ (disk' # disk /\ disk' \subseteq disk)
       /\ (cleanup_prompted /\ ~(disk' # disk /\ disk' \subseteq disk))
            => /\ prompts_scheduled' = prompts_scheduled
               /\ cleanup_prompted'
      ]_vars

\* The one prompt was answered with No, usage is still at 90% or more, and the
\* gallery has been refreshed since by selecting a folder.
C17_Witness ==
    /\ prompts_scheduled = 1
    /\ prompt_timers = 0
    /\ cleanup_prompted
    /\ Over90(disk)
    /\ last_dialog = <<"askyesno", "Disk Space Warning">>
    /\ status_var[1] = "Showing: "
    /\ ENABLED StSelect

(***************************************************************************)
(* ScreenshotTool: pasting into a push target.                             *)
(***************************************************************************)
\* The handles of the visible windows whose title contains the pattern
Matching ==
    {h \in 1..Len(windows) :
        /\ windows[h].visible
        /\ Contains(Lower(target.title_pattern), Lower(windows[h].title))}

\* This step is a call of paste_to_target.
PasteCall == Len(paste_results') = Len(paste_results) + 1

\* The input events this step added
NewInput == SubSeq(input_events', Len(input_events) + 1, Len(input_events'))

\* The clicks paste_to_target makes at the window hwnd
ClicksAt(hwnd) ==
    {<<"click", (GetWindowRect(hwnd)[1] + GetWindowRect(hwnd)[3]) \div 2,
                (GetWindowRect(hwnd)[2] + GetWindowRect(hwnd)[4]) \div 2>>}
    \cup (IF target.click_x # Nil /\ target.click_y # Nil
          THEN {<<"click", ClickPoint(target, hwnd)[1], ClickPoint(target, hwnd)[2]>>}
          ELSE {})

\* C15: when no visible top-level window title contains the target pattern,
\* paste_to_target returns False without a click or a paste keystroke and
\* sets no new timer, and, unless the enumeration itself failed, the status
\* is "window not found"; when several windows match, the input it makes
\* goes to the first of them in enumeration order.
C15_NotFoundNoInput ==
    [][PasteCall
          => /\ Matching = {}
                   => /\ paste_results' = Append(paste_results, FALSE)
                      /\ input_events' = input_events
                      /\ pending' = Tail(pending)
                      /\ \/ status_var' = <<"'", target.name, "' window not found">>
                         \/ status_var' = <<"Paste to ", target.name, " failed: ", "enum">>
             /\ Matching # {}
                   => \A i \in 1..Len(NewInput) :
                         NewInput[i][1] = "click"
                            => NewInput[i] \in
                                  ClicksAt(CHOOSE h \in Matching :
                                              \A g \in Matching : h <= g)
      ]_vars

\* A call found nothing although a window with a matching title exists,
\* which is not visible.
C15_Witness ==
    /\ paste_results = <<FALSE>>
    /\ input_events = <<>>
    /\ status_var = <<"'", target.name, "' window not found">>
    /\ Matching = {}
    /\ \E h \in 1..Len(windows) :
          Contains(Lower(target.title_pattern), Lower(windows[h].title))

\* C16: with a click offset configured, the synthetic click at the computed
\* point goes out before the paste keystroke, and a call of paste_to_target
\* makes at most one paste keystroke: a keystroke is the last input of its
\* call and the click at the computed point is the input just before it.
C16_ClickBeforePaste ==
    [][(PasteCall /\ target.click_x # Nil /\ target.click_y # Nil)
          => \A i \in 1..Len(NewInput) :
                NewInput[i][1] = "hotkey"
                   => /\ i = Len(NewInput)
                      /\ i >= 2
                      /\ \E h \in Matching :
                            NewInput[i - 1] =
                               <<"click", ClickPoint(target, h)[1],
                                          ClickPoint(target, h)[2]>>
      ]_vars

\* A paste went out to a target with an offset from the bottom centre: the
\* activating click, the click at the offset, the keystroke.
C16_Witness ==
    /\ paste_results = <<TRUE>>
    /\ target.click_x # Nil
    /\ target.click_y # Nil
    /\ target.offset_type = "relative_bottom_center"
    /\ Len(input_events) = 3
    /\ input_events[2][1] = "click"
    /\ input_events[3] = <<"hotkey", "ctrl+v">>

(***************************************************************************)
(* ScreenshotTool: a screen grab that fails.                               *)
(***************************************************************************)
\* The flow fl is about to grab the screen: its timer is due, its countdown
\* has run out, or (window capture) its picker is open.
AtGrab(fl) ==
    \/ fl.pc \in {"after_selector", "after_grab"} /\ fl.mode \in {"region", "full"}
    \/ fl.pc = "countdown" /\ fl.seconds_left <= 0 /\ fl.mode \in {"region", "full"}
    \/ fl.pc = "selector" /\ fl.mode = "window"

\* This step is the handler of flow fl whose screen grab raises.
GrabFails(fl) ==
    /\ AtGrab(fl)
    /\ CASE fl.mode = "region" -> _show_region_selector(fl, FALSE)
         [] fl.mode = "full" -> _do_fullscreen_capture(fl, FALSE)
         [] fl.mode = "window" -> on_window_selected(fl, TRUE, "error")
    /\ UNCHANGED <<Settings, now>>

\* The message of the capture mode's except clause
ErrorMessage(mode) ==
    CASE mode = "region" -> "Error capturing region"
      [] mode = "full" -> "Error capturing screenshot"
      [] mode = "window" -> "Error capturing window"

\* C18: whenever the screen grab of a region, window or full-screen capture
\* fails, the error is shown in a dialog (with the message that also goes to
\* the status bar), nothing is saved and the main window is restored,
\* whatever silent capture and edit-before-save are set to.
C18_GrabFailureReported ==
    [][\A fl \in FlowSet :
          GrabFails(fl)
             => /\ last_dialog' = <<"showerror", "Error", ErrorMessage(fl.mode)>>
                /\ files' = files
                /\ screenshot_count' = screenshot_count
                /\ iconified' = FALSE
      ]_vars

(***************************************************************************)
(* ScreenshotTool: a file-system operation that fails.                     *)
(***************************************************************************)
\* This step is a folder or file operation in which os.remove, mkdir,
\* shutil.move, rename or rmdir raises.
FileOpFails ==
    \/ \E f \in disk : delete_screenshot(f, TRUE, TRUE)
    \/ \E f \in disk, folder_name \in folders :
          move_to_folder(f, folder_name, TRUE, "mkdir")
    \/ \E f \in disk, folder_name \in {""} \cup folders :
          move_to_folder(f, folder_name, TRUE, "move")
    \/ \E old_name \in folders, typed \in NewNames :
          /\ typed \notin {"", old_name}
          /\ Sanitize(typed) \notin {""} \cup folders
          /\ rename_folder(old_name, typed, TRUE)
    \/ \E folder_name \in folders, rmdir_raises \in BOOLEAN :
          \E images \in Orders({f \in disk : f.folder = folder_name}) :
             \E moved \in 0..Len(images) :
                /\ moved < Len(images) \/ rmdir_raises
                /\ delete_folder(folder_name, TRUE, images, moved, rmdir_raises)

\* C19: when deleting a screenshot, renaming a folder, deleting a folder
\* with its images moved to the root, or moving a screenshot to a folder
\* fails, an error dialog is shown and the state is as before: no file has
\* been moved or removed, and the folders and current_folder are unchanged.
C19_FailedOpLeavesState ==
    [][FileOpFails
          => /\ last_dialog' # Nil
             /\ last_dialog'[1] = "showerror"
             /\ disk' = disk
             /\ folders' = folders
             /\ current_folder' = current_folder
      ]_vars

\* C22: for a push target whose click_x and click_y are None, paste_to_target
\* makes no synthetic mouse click: the only input of the call is the paste
\* keystroke.
C22_NoClickWithoutOffset ==
    [][(PasteCall /\ target.click_x = Nil /\ target.click_y = Nil)
          => \A i \in 1..Len(NewInput) : NewInput[i][1] # "click"
      ]_vars

\* C23: whenever a hotkey press has set the in-flight guard, the guard
\* returns to false later on, on every path the flow can take, the cancelling
\* of the delay countdown included.
C23_GuardEventuallyReset == capture_in_progress ~> ~capture_in_progress

\* The flows started by a hotkey whose countdown or selector is still ahead
\* or open: none of their handlers has reset the guard yet.
HotkeyOpen ==
    {fl \in FlowSet :
        /\ fl.origin = "hotkey"
        /\ fl.pc \in {"after_start", "after_countdown", "countdown",
                      "after_selector", "selector", "after_grab"}}

\* C24: the in-flight guard set by a flow a hotkey started is cleared only
\* by that flow: while its countdown or selector is open the guard stays
\* set, whatever capture started with a button completes meanwhile.
C24_GuardHeldWhileOpen == HotkeyOpen # {} => capture_in_progress

\* C21: once on_close has closed the main window, none of the hotkeys the
\* program registered is bound any more: not the three capture chords, and
\* not the temporary hotkey of a push-target position capture.
C21_NothingBoundAfterClose == closed => hotkeys = EmptyBag

\* C25: a DelayCountdown calls its callback exactly once: not while its
\* window exists, once when the window is gone, with True only after as many
\* one-second waits as the seconds it was created with, and with False when
\* it was cancelled earlier; the tick pending at a cancel adds no call.
C25_CallbackOnce ==
    \A i \in 1..Len(countdowns) :
        LET c == countdowns[i]
        IN /\ Len(c.calls) <= 1
           /\ c.open <=> c.calls = <<>>
           /\ c.calls = <<TRUE>> => c.waited = c.seconds /\ ~c.timer
           /\ c.calls = <<FALSE>> => c.waited < c.seconds

\* One countdown has run out, another was cancelled and the tick that was
\* pending then has fired since.
C25_Witness ==
    /\ \E i \in 1..Len(countdowns) : countdowns[i].calls = <<TRUE>>
    /\ \E i \in 1..Len(countdowns) :
          /\ countdowns[i].calls = <<FALSE>>
          /\ ~countdowns[i].timer
          /\ ~countdowns[i].open

\* C26: a RegionSelector calls its callback at most once per overlay,
\* whatever presses, drags, releases and Escapes it receives: the call is
\* made when the overlay is destroyed, and no handler runs after that.
C26_RegionCallbackOnce ==
    /\ Len(rs_calls) <= 1
    /\ rs_open <=> rs_calls = <<>>

\* A region was selected and reported; the overlay is gone and takes no
\* further release or Escape.
C26_Witness ==
    /\ Len(rs_calls) = 1
    /\ rs_calls[1].by = "release"
    /\ rs_calls[1].region # Nil
    /\ ~rs_open
    /\ ~ENABLED RsEscape
    /\ ~ENABLED RsRelease

\* C27: when the editor is cancelled (on_editor_complete receives None) the
\* screenshot is discarded: no file is written, the clipboard is not
\* touched, the session counter is unchanged and no auto-send is scheduled;
\* only the status bar changes.
C27_CancelDiscards ==
    [][\A outcome \in ClipboardOutcomes :
          OnEditorComplete(NoInt, outcome)
             => /\ UNCHANGED <<disk, files, folders, gallery>>
                /\ UNCHANGED <<clipboard, copy_failed>>
                /\ UNCHANGED screenshot_count
                /\ UNCHANGED <<pending, prompt_timers>>
                /\ status_var' = <<"Screenshot discarded">>]_vars

\* An editor was cancelled after a screenshot had been saved and sent, with
\* auto-send still on: nothing was added to that one screenshot.
C27_Witness ==
    /\ status_var = <<"Screenshot discarded">>
    /\ auto_send_enabled /\ auto_send_target \in PushTargets
    /\ screenshot_count = 1
    /\ Cardinality(disk) = 1
    /\ clipboard = 1
    /\ Len(pending) = 1

\* C28: after every pointer release in the editor, whatever mode, colour and
\* lock changes came between the press and the release, the preview layer is
\* empty and drawing, last_x, last_y, lock_y, center_x and center_y are reset.
C28_ReleaseResets ==
    [][EdRelease
          => /\ preview_layer' = EmptyLayer
             /\ ~drawing'
             /\ last_x' = NoInt /\ last_y' = NoInt
             /\ lock_y' = NoInt
             /\ center_x' = NoInt /\ center_y' = NoInt]_vars

\* C29: every screenshot the tool saves counts toward the disk-quota check,
\* also one written into the selected folder: once a save has brought the
\* total size of the saved screenshots to 90% of the limit, the cleanup
\* prompt has been raised.
AllOver90(d) == TotalKiB(d) * 100 >= 90 * (disk_limit_mb * 1024)

C29_EverySaveCounts ==
    [][QtSave => (AllOver90(disk') => cleanup_prompted')]_vars

\* C30: cleanup_old_screenshots deletes only screenshots of the save
\* directory whose modification time is before the cutoff (now minus the
\* configured days); a newer file is never deleted; and the count and the
\* freed size that "Cleanup Complete" reports are the number and the total
\* size of the files removed.
CleanupStep == QtPrompt \/ QtCleanup

C30_CleanupOnlyOld ==
    [][CleanupStep
          => LET removed == disk \ disk'
                 cutoff == now - archive_days * DayTicks
             IN /\ \A f \in removed : f.mtime < cutoff
                /\ \A f \in disk : f.mtime >= cutoff => f \in disk'
                /\ last_dialog'[1] = "showinfo"
                      => /\ last_dialog'[3] = Cardinality(removed)
                         /\ last_dialog'[4] = Tenths(TotalKiB(removed))]_vars

\* A cleanup has deleted the one old screenshot and said so (one file,
\* 50.0 MB), and a screenshot of this session is still there.
C30_Witness ==
    /\ last_dialog = <<"showinfo", "Cleanup Complete", 1, 500>>
    /\ OldFile(1) \notin disk
    /\ \E f \in disk : f.mtime >= now - archive_days * DayTicks

\* C31: after any sequence of folder create, select, rename, delete and
\* change-save-directory operations, current_folder is None or the name of
\* an existing subfolder of the save directory.
C31_CurrentFolderExists == current_folder = "" \/ current_folder \in folders

\* C32: deleting a folder with "move images to root" never loses an image:
\* the number of image files in the save directory and its subfolders is
\* the same before and after, whatever names the save directory holds.
C32_DeleteFolderKeepsImages ==
    [][FdDeleteFolder => Cardinality(disk') = Cardinality(disk)]_vars

\* C33: move_to_folder never replaces a different file at the destination
\* unless the user confirmed the overwrite prompt; when the user declines, no
\* file is moved and the gallery and the status bar are unchanged.
MoveAsked(f, folder_name) ==
    Exists(disk, folder_name, f.name) /\ f.folder # folder_name

C33_OverwriteOnlyConfirmed ==
    [][\A f \in disk, folder_name \in {""} \cup folders, raises \in {"no", "mkdir", "move"} :
          /\ move_to_folder(f, folder_name, FALSE, raises)
                => /\ disk' \ {[f EXCEPT !.folder = folder_name]} \subseteq disk
                   /\ disk \ {f} \subseteq disk'
                   /\ MoveAsked(f, folder_name)
                         => UNCHANGED <<disk, gallery, status_var>>
          /\ move_to_folder(f, folder_name, TRUE, raises)
                => \A g \in disk \ disk' :
                      \/ g = f
                      \/ /\ MoveAsked(f, folder_name)
                         /\ last_dialog' = <<"askyesno", "File Exists">>
                         /\ g.folder = folder_name /\ g.name = f.name
      ]_vars

\* A move was declined at the overwrite prompt: both files of the name are
\* still there.
C33_Witness ==
    /\ last_dialog = <<"askyesno", "File Exists">>
    /\ status_var = <<"Ready">>
    /\ \E f, g \in disk : f.name = g.name /\ f.folder = "" /\ g.folder = "work"

(***************************************************************************)
(* ScreenshotTool: the main window after a capture.                        *)
(***************************************************************************)
\* The step in which the capture of the flow fl completes (the image is
\* grabbed) or is cancelled at its selector
CaptureEnds(fl) ==
    \/ /\ fl.pc = "selector" /\ fl.mode = "region"
       /\ \E selected \in BOOLEAN : on_region_selected(fl, selected)
    \/ /\ fl.pc = "selector" /\ fl.mode = "window"
       /\ \E selected \in BOOLEAN : on_window_selected(fl, selected, "ok")
    \/ /\ fl.pc = "after_grab"
       /\ _do_fullscreen_capture(fl, TRUE)

\* The editors open
Editors == BagCardinality([fl \in {e \in FlowSet : e.pc = "editor"} |-> flows[fl]])

\* C34: with silent capture on and edit-before-save off, the step in which a
\* region, window or full-screen capture completes or is cancelled at the
\* selector does not deiconify the main window; with edit-before-save on,
\* the main window is deiconified when an editor opens, in every mode.
C34_SilentStaysIconified ==
    [][/\ (silent_capture /\ ~edit_before_save)
             => \A fl \in FlowSet : CaptureEnds(fl) => iconified' = iconified
       /\ (edit_before_save /\ Editors' > Editors) => ~iconified'
      ]_vars

\* A silent capture without editor has saved its screenshot, nothing is in
\* flight any more, and the main window is still iconified.
C34_Witness ==
    /\ silent_capture /\ ~edit_before_save
    /\ iconified
    /\ screenshot_count = 1
    /\ InFlight = {}
    /\ \E fl \in FlowSet : fl.pc = "done" /\ fl.resets = 1

(***************************************************************************)
(* ScreenshotTool: auto-send after a save.                                 *)
(***************************************************************************)
\* The step is a save_screenshot / the step is a call of paste_to_target
Saved == screenshot_count' = screenshot_count + 1
Pasted == Len(paste_results') = Len(paste_results) + 1

\* The paste is scheduled exactly when auto-send is on and the selected
\* target exists, once, with the file written; and a paste, failed or not,
\* changes neither the files nor the clipboard.
AutoSendScheduling ==
    /\ Saved
          => /\ pending' = IF auto_send_enabled /\ auto_send_target \in PushTargets
                           THEN Append(pending, auto_send_target)
                           ELSE pending
             /\ \E f \in disk' : /\ f.content = screenshot_count + 1
                                 /\ f.folder = current_folder
    /\ Pasted => UNCHANGED <<disk, clipboard>>

\* C35 as stated: a paste is scheduled by save_screenshot exactly when
\* auto-send is on and the target exists, once per save, and only with the
\* file written and the image copied to the clipboard; a paste failure
\* leaves the file and the clipboard in place.
C35_PasteAfterCopy ==
    [][/\ AutoSendScheduling
       /\ (Saved /\ pending' # pending) => clipboard' = screenshot_count + 1
      ]_vars


\* The step of a button release on the held thumbnail, and of a pointer motion
\* that first passes the threshold
ButtonUp == held # Nil /\ held' = Nil
Strays == ~strayed /\ strayed'

\* C36: a press and a release on a thumbnail with the pointer never more than
\* 5 px away in x or in y opens the image (or reports that it cannot be
\* opened) and moves no file; the motion that first takes the pointer further
\* starts a drag of that thumbnail; the release after it opens nothing, and
\* leaves drag_data["filepath"] None and no drag label, whether or not the
\* drop hit a folder button.
C36_ClickOpensDragMoves ==
    [][/\ ButtonUp /\ ~strayed =>
              /\ disk' = disk
              /\ \/ opened' = Append(opened, held)
                 \/ /\ opened' = opened
                    /\ last_dialog' = <<"showerror", "Error", "Could not open image">>
       /\ Strays =>
              /\ drag_started'
              /\ drag_filepath' = held
       /\ ButtonUp /\ strayed =>
              /\ opened' = opened
              /\ drag_filepath' = Nil
              /\ drag_label' = Nil]_vars

\* An image was opened with a click, a file was dropped on a folder button and
\* moved, and the last gesture was a drag.
C36_Witness ==
    /\ held = Nil
    /\ strayed
    /\ Len(opened) > 0
    /\ status_var[1] = "Moved to "
    /\ last_dialog = Nil
    /\ drag_filepath = Nil
    /\ drag_label = Nil


\* Each thumbnail has at most one overlay window at a time.
HoverOneOverlay == \A t \in Thumbs : Cardinality(OverlaysOf(t)) <= 1

\* Every overlay window put on floating_windows is destroyed and taken off
\* the list in the end.
HoverOverlaysEnd ==
    \A w \in 1..MaxOverlays :
        (w \in Range(floating_windows))
            ~> (w \notin Range(floating_windows) /\ w \notin toplevels)

\* The pointer comes onto thumbnail t, from elsewhere or from under an overlay
\* that is gone
Hovers(t) == pointer # OnThumb(t) /\ pointer' = OnThumb(t)

\* After the pointer has come onto a thumbnail, the thumbnail has an overlay
\* window.
HoverOpensOverlay == [][\A t \in Thumbs : Hovers(t) => OverlaysOf(t)' # {}]_vars

\* C37: each thumbnail has at most one hover overlay open at a time; every
\* overlay window added to floating_windows is in the end destroyed and removed
\* from the list; and hovering a thumbnail opens an overlay, also after a
\* periodic cleanup has destroyed the thumbnail's earlier overlay.
C37_OverlaysOpenAndEnd ==
    /\ []HoverOneOverlay
    /\ HoverOverlaysEnd
    /\ HoverOpensOverlay

\* A periodic cleanup has destroyed the overlay of a thumbnail, the pointer has
\* left the thumbnail and its hide timer has run, and the thumbnail has a new
\* overlay.
HoverReopened ==
    \E t \in Thumbs :
        /\ pointer = OnThumb(t)
        /\ OverlaysOf(t) # {}
        /\ \E w \in 1..Len(overlay_thumb) :
               /\ overlay_thumb[w].thumb = t
               /\ ~overlay_thumb[w].gone
               /\ w \notin toplevels
               /\ w < hover[t].overlay_window
        /\ opened = <<>>
        /\ last_dialog = Nil

====
